---- MODULE Spec2Model ----
(***************************************************************************)
(* Catalog ingestion of matrix-hub: src/services/ingest.py and src/db.py.  *)
(*                                                                         *)
(* Text fields (name, summary, description, source_url) are strings; None  *)
(* is Python's None.  The key fields type, id and version are sequences of *)
(* atoms in which " " is a whitespace character, so that str.strip() and   *)
(* the f-string that builds the uid are computed, not assumed.  Lists      *)
(* (capabilities) are sequences; NoneSeq is None for a sequence value.     *)
(*                                                                         *)
(* Specifications: Spec (ingest_all, ingest_index), SpecSearch             *)
(* (run_keyword, run_pgtrgm, the null and pgvector backends), SpecRank     *)
(* (merge_and_score), SpecNorm (normalize_minmax), SpecRetry               *)
(* (MCPGatewayClient._request), SpecA2A (ingest_manifest), SpecSched       *)
(* (_run_ingest_cycle), SpecRecency (compute_recency_score), SpecChunk and *)
(* SpecChunkLive (the loops of _merge_blocks and _slice_hard) and          *)
(* SpecEmbed (_chunk_and_embed).  Each sets the variables of the others to *)
(* their idle values and leaves them alone.                                *)
(***************************************************************************)
EXTENDS Integers, Sequences, FiniteSets, TLC

None == "<None>"
NoneSeq == << "<None>" >>
WS == " "

\* ------------------------------------------------------------------------
\* Python helpers
\* ------------------------------------------------------------------------

\* a or b, for text values
OrT(a, b) == IF a = None \/ a = "" THEN b ELSE a

\* a or b, for list / key values
OrS(a, b) == IF a = NoneSeq \/ a = <<>> THEN b ELSE a

RECURSIVE lstrip(_)
lstrip(s) == IF s # <<>> /\ Head(s) = WS THEN lstrip(Tail(s)) ELSE s

RECURSIVE rstrip(_)
rstrip(s) == IF s # <<>> /\ s[Len(s)] = WS THEN rstrip(SubSeq(s, 1, Len(s) - 1)) ELSE s

\* str.strip()
strip(s) == rstrip(lstrip(s))

\* f"{type}:{id}@{version}"
FormatUid(t, i, v) == t \o << ":" >> \o i \o << "@" >> \o v

\* ------------------------------------------------------------------------
\* Entity rows and the table's constraints (src/models.py)
\* ------------------------------------------------------------------------

EntityTypes == { << "agent" >>, << "tool" >>, << "mcp_server" >> }

\* NOT NULL on type, name, version and the CHECK constraint ck_entity_type
RowOK(r) ==
    /\ r.type \in EntityTypes
    /\ r.name # None
    /\ r.version # NoneSeq

\* Entity(uid=..., type=..., name=..., version=...): the other columns unset
NewEntity(uid, t, n, v) ==
    [uid |-> uid, type |-> t, name |-> n, version |-> v,
     summary |-> None, description |-> None, capabilities |-> NoneSeq,
     source_url |-> None]

HasRow(rows, uid) == \E r \in rows : r.uid = uid

RowOf(rows, uid) == CHOOSE r \in rows : r.uid = uid

\* the rows with one row replaced (or added) under its primary key
PutRow(rows, r) == { x \in rows : x.uid # r.uid } \cup { r }

\* ------------------------------------------------------------------------
\* src/db.py
\* ------------------------------------------------------------------------

\* _coalesce for a text value: None and "" keep the old value
_coalesce(new, old) ==
    IF new = None THEN old
    ELSE IF new = "" THEN old
    ELSE new

\* _coalesce for a list value: only None keeps the old value ([] is not a str)
_coalesce_list(new, old) == IF new = NoneSeq THEN old ELSE new

\* upsert_entity: the row it leaves in the session, without commit.
\* manifest['type'] etc. raise KeyError when the key is absent.
upsert_entity(m, rows) ==
    IF m.type = NoneSeq \/ m.id = NoneSeq \/ m.version = NoneSeq
    THEN [raised |-> "KeyError", rows |-> rows, uid |-> NoneSeq]
    ELSE
      LET uid == FormatUid(m.type, m.id, m.version)
          e0 == IF HasRow(rows, uid)
                THEN [RowOf(rows, uid) EXCEPT !.name = m.name, !.version = m.version]
                ELSE NewEntity(uid, m.type, m.name, m.version)
          e1 == [e0 EXCEPT
                   !.summary = _coalesce(m.summary, e0.summary),
                   !.description = _coalesce(m.description, e0.description),
                   !.source_url = _coalesce(m.source_url, e0.source_url),
                   !.capabilities = _coalesce_list(m.capabilities, e0.capabilities)]
      IN [raised |-> "", rows |-> PutRow(rows, e1), uid |-> uid]

\* save_entity(manifest, session) with its default commit=True:
\* upsert, then session.commit(); a failed flush or commit rolls the session
\* back to the committed rows and raises.
save_entity(m, st, commitOk) ==
    LET u == upsert_entity(m, st.rows) IN
    IF u.raised # ""
    THEN [raised |-> u.raised, st |-> st, uid |-> NoneSeq, committed |-> FALSE]
    ELSE IF st.state = "deactive"
    THEN [raised |-> "PendingRollbackError", st |-> st, uid |-> NoneSeq, committed |-> FALSE]
    ELSE IF ~ (\A r \in u.rows : RowOK(r))
    THEN [raised |-> "IntegrityError",
          st |-> [st EXCEPT !.rows = st.db, !.txn = FALSE],
          uid |-> u.uid, committed |-> FALSE]
    ELSE IF ~ commitOk
    THEN [raised |-> "OperationalError",
          st |-> [st EXCEPT !.rows = st.db, !.txn = FALSE],
          uid |-> u.uid, committed |-> FALSE]
    ELSE [raised |-> "",
          st |-> [st EXCEPT !.rows = u.rows, !.db = u.rows, !.txn = FALSE],
          uid |-> u.uid, committed |-> TRUE]

\* ------------------------------------------------------------------------
\* src/services/ingest.py: upsert of the mapped fields
\* ------------------------------------------------------------------------

\* _entity_uid: the uid of the stripped key fields; NoneSeq when it raises SkipManifest
_entity_uid(m) ==
    LET mtype == strip(OrS(m.type, <<>>))
        mid == strip(OrS(m.id, <<>>))
        ver == strip(OrS(m.version, <<>>))
    IN IF mtype = <<>> \/ mid = <<>> \/ ver = <<>>
       THEN NoneSeq
       ELSE FormatUid(mtype, mid, ver)

\* _upsert_entity_from_manifest: db.get by the stripped uid, create when absent,
\* map the fields with `or`, flush.  A failed flush leaves the session inactive
\* with its transaction rolled back.
_upsert_entity_from_manifest(m, st, source_url) ==
    LET uid == _entity_uid(m) IN
    IF uid = NoneSeq
    THEN [raised |-> "SkipManifest", st |-> st, uid |-> NoneSeq]
    ELSE IF st.state = "deactive"
    THEN [raised |-> "PendingRollbackError", st |-> st, uid |-> uid]
    ELSE
      LET e0 == IF HasRow(st.rows, uid)
                THEN RowOf(st.rows, uid)
                ELSE NewEntity(uid, m.type, OrT(m.name, ""), OrS(m.version, <<>>))
          e1 == [e0 EXCEPT
                   !.summary = OrT(m.summary, OrT(m.description, e0.summary)),
                   !.description = OrT(m.description, e0.description),
                   !.source_url = OrT(source_url, e0.source_url),
                   !.capabilities = OrS(OrS(m.capabilities, <<>>), e0.capabilities)]
      IN IF RowOK(e1)
         THEN [raised |-> "",
               st |-> [st EXCEPT !.rows = PutRow(st.rows, e1), !.txn = TRUE],
               uid |-> uid]
         ELSE [raised |-> "IntegrityError",
               st |-> [st EXCEPT !.rows = st.db, !.state = "deactive", !.txn = TRUE],
               uid |-> uid]

\* ------------------------------------------------------------------------
\* src/services/search/chunking.py, on texts given by identity and length:
\* a piece [t, a, b] is the characters a..b-1 of the paragraph named t.
\* ------------------------------------------------------------------------

\* the length in characters of a paragraph of the catalog
CharLen(s) ==
    CASE s = "README-LONG-1" -> 900
      [] s = "README-LONG-2" -> 700
      [] OTHER -> Len(s)

Whole(s) == [t |-> s, a |-> 0, b |-> CharLen(s)]

PieceLen(p) == p.b - p.a

\* estimate_tokens: max(1, ceil(len / 4)), 0 for the empty text
estimate_tokens(p) ==
    IF PieceLen(p) = 0 THEN 0
    ELSE IF (PieceLen(p) + 3) \div 4 < 1 THEN 1 ELSE (PieceLen(p) + 3) \div 4

Min(a, b) == IF a < b THEN a ELSE b

Max(a, b) == IF a > b THEN a ELSE b

\* offsets[k][0]: the start of block k in "\n\n".join(blocks)
RECURSIVE OffsetStart(_, _)
OffsetStart(blocks, k) ==
    IF k = 1 THEN 0
    ELSE OffsetStart(blocks, k - 1) + PieceLen(blocks[k - 1]) + 2

\* the inner while loop of _merge_blocks: <<j, cur_tokens>> when it ends
RECURSIVE PackWindow(_, _, _, _, _)
PackWindow(blocks, idx, j, cur_tokens, max_tokens) ==
    IF j > Len(blocks) THEN << j, cur_tokens >>
    ELSE LET t_est == estimate_tokens(blocks[j]) IN
         IF j > idx /\ cur_tokens + t_est > max_tokens
         THEN << j, cur_tokens >>
         ELSE PackWindow(blocks, idx, j + 1, cur_tokens + t_est, max_tokens)

\* the scan `for k in range(idx, j)` for the first block starting at or after
\* new_abs_start; j when there is none
RECURSIVE ScanNext(_, _, _, _)
ScanNext(blocks, k, j, new_abs_start) ==
    IF k >= j THEN j
    ELSE IF OffsetStart(blocks, k) >= new_abs_start THEN k
    ELSE ScanNext(blocks, k + 1, j, new_abs_start)

\* variant: the next window starts where the overlap scan says, without
\* the max(idx + 1, ...) that forces progress
merge_step_no_progress(blocks, idx, max_tokens, overlap_tokens) ==
    LET pw == PackWindow(blocks, idx, idx, 0, max_tokens)
        j == pw[1]
        cur_tokens == pw[2]
        used_chars == OffsetStart(blocks, j - 1) + PieceLen(blocks[j - 1])
                        - OffsetStart(blocks, idx)
        back_chars == Min(overlap_tokens, cur_tokens \div 2) * 4
        new_abs_start == OffsetStart(blocks, idx) + Max(0, used_chars - back_chars)
    IN [j |-> j, cur_tokens |-> cur_tokens, cur_empty |-> FALSE,
        last |-> j > Len(blocks),
        next |-> Min(ScanNext(blocks, idx, j, new_abs_start), j)]

\* one iteration of the outer while loop of _merge_blocks at window start idx:
\* j and cur_tokens when the inner loop ends, whether `cur` is empty (the
\* condition of the hard-slice branch), whether the loop breaks after this
\* window (j >= len(blocks)), and the idx of the next iteration
merge_step(blocks, idx, max_tokens, overlap_tokens) ==
    LET pw == PackWindow(blocks, idx, idx, 0, max_tokens)
        j == pw[1]
        cur_tokens == pw[2]
        used_chars == OffsetStart(blocks, j - 1) + PieceLen(blocks[j - 1])
                        - OffsetStart(blocks, idx)
        back_chars == Min(overlap_tokens, cur_tokens \div 2) * 4
        new_abs_start == OffsetStart(blocks, idx) + Max(0, used_chars - back_chars)
        next_idx == ScanNext(blocks, idx, j, new_abs_start)
    IN IF j = idx
       THEN [j |-> j, cur_tokens |-> 0, cur_empty |-> TRUE, last |-> FALSE,
             next |-> idx + 1]
       ELSE [j |-> j, cur_tokens |-> cur_tokens, cur_empty |-> FALSE,
             last |-> j > Len(blocks),
             next |-> Max(idx + 1, Min(next_idx, j))]

RECURSIVE MergeFrom(_, _, _, _)

\* the windows from the iteration that ended with s on
MergeRest(blocks, idx, max_tokens, overlap_tokens, s) ==
    IF s.last
    THEN << SubSeq(blocks, idx, s.j - 1) >>
    ELSE << SubSeq(blocks, idx, s.j - 1) >>
         \o MergeFrom(blocks, s.next, max_tokens, overlap_tokens)

\* _merge_blocks from window start idx: the windows, each the blocks it joins.
\* The first block of a window is appended whatever its size, so `cur` is never
\* empty and the hard-slice branch (lines 291-303) is not taken.
MergeFrom(blocks, idx, max_tokens, overlap_tokens) ==
    IF idx > Len(blocks) THEN <<>>
    ELSE MergeRest(blocks, idx, max_tokens, overlap_tokens,
                   merge_step(blocks, idx, max_tokens, overlap_tokens))

_merge_blocks(blocks, max_tokens, overlap_tokens) ==
    MergeFrom(blocks, 1, max_tokens, overlap_tokens)

DEFAULT_MAX_TOKENS == 256

DEFAULT_OVERLAP_TOKENS == 48

\* split_text(corpus): chunk_document with the defaults, the chunk texts only.
\* The corpus is the sequence of its non-empty paragraphs.
split_text(corpus) ==
    _merge_blocks(corpus, DEFAULT_MAX_TOKENS, DEFAULT_OVERLAP_TOKENS)

\* ------------------------------------------------------------------------
\* src/services/ingest.py: corpus, chunks, vectors
\* ------------------------------------------------------------------------

RECURSIVE JoinComma(_)
JoinComma(xs) ==
    IF xs = <<>> THEN ""
    ELSE IF Len(xs) = 1 THEN xs[1]
    ELSE xs[1] \o ", " \o JoinComma(Tail(xs))

RECURSIVE NonEmpty(_)
NonEmpty(parts) ==
    IF parts = <<>> THEN <<>>
    ELSE IF parts[1] = None \/ parts[1] = "" THEN NonEmpty(Tail(parts))
    ELSE << parts[1] >> \o NonEmpty(Tail(parts))

RECURSIVE WholeAll(_)
WholeAll(parts) ==
    IF parts = <<>> THEN <<>> ELSE << Whole(parts[1]) >> \o WholeAll(Tail(parts))

\* _build_corpus: name, summary, description, the capability line, the README
\* paragraphs; the non-empty parts, which "\n\n".join makes the paragraphs
_build_corpus(entity, m) ==
    WholeAll(NonEmpty(
        << entity.name, entity.summary, entity.description >>
        \o (IF entity.capabilities # NoneSeq /\ entity.capabilities # <<>>
            THEN << "Capabilities: " \o JoinComma(entity.capabilities) >>
            ELSE <<>>)
        \o m.readme))

\* the chunk id of a chunk text: sha256 of the text, taken as injective
ChunkId(txt) == txt

RECURSIVE Sanitize(_, _)
\* LocalBlobStore.put_text: re.sub(r"[^A-Za-z0-9._@#-]+", "_", key) on the uid
\* part of the key; a run of ":" and " " becomes one "_"
Sanitize(s, inRun) ==
    IF s = <<>> THEN <<>>
    ELSE IF Head(s) \in { ":", WS }
         THEN (IF inRun THEN <<>> ELSE << "_" >>) \o Sanitize(Tail(s), TRUE)
         ELSE << Head(s) >> \o Sanitize(Tail(s), FALSE)

\* blobstore.put_text(f"{entity.uid}#{chunk_id}", txt): the file it writes
BlobKey(uid, chunk_id) == << Sanitize(uid, FALSE), chunk_id >>

\* NullVectorBackend.upsert_vectors / pgvector.upsert_vectors: store nothing
upsert_vectors(vecs, items) == vecs

\* NullVectorBackend.delete_vectors / pgvector.delete_vectors: delete nothing
delete_vectors(vecs, entity_uids) == vecs

SeqRange(xs) == { xs[i] : i \in 1..Len(xs) }

\* _chunk_and_embed: chunk the corpus, delete the entity's vectors, write one
\* blob per chunk, upsert the vectors; the number of upserts.  blobPuts is the
\* number of put_text calls that succeed before one fails (none fails when it
\* is at least the number of chunks).
_chunk_and_embed(entity, m, bl, vecs, blobPuts) ==
    LET corpus == _build_corpus(entity, m)
        texts == split_text(corpus)
        vecs1 == delete_vectors(vecs, { entity.uid })
        upserts == { [entity_uid |-> entity.uid, chunk_id |-> ChunkId(texts[i])] :
                        i \in 1..Len(texts) }
    IN IF corpus = <<>>
       THEN [raised |-> "", blobs |-> bl, vectors |-> vecs, count |-> 0, batch |-> <<>>]
       ELSE IF blobPuts < Len(texts)
       THEN [raised |-> "OSError",
             blobs |-> bl \cup { BlobKey(entity.uid, ChunkId(texts[i])) : i \in 1..blobPuts },
             vectors |-> vecs1, count |-> 0, batch |-> <<>>]
       ELSE [raised |-> "",
             blobs |-> bl \cup { BlobKey(entity.uid, ChunkId(t)) : t \in SeqRange(texts) },
             vectors |-> upsert_vectors(vecs1, upserts),
             count |-> Len(texts),
             batch |-> texts]

\* ------------------------------------------------------------------------
\* src/services/ingest.py: best-effort gateway registration
\* ------------------------------------------------------------------------

RECURSIVE rstrip_slash(_)
rstrip_slash(u) ==
    IF u # <<>> /\ u[Len(u)] = "/" THEN rstrip_slash(SubSeq(u, 1, Len(u) - 1)) ELSE u

\* _indicates_sse_messages_url
_indicates_sse_messages_url(url, transport) ==
    LET normalized == rstrip_slash(url)
        endsMessages == Len(normalized) >= 2
                          /\ normalized[Len(normalized)] = "messages"
                          /\ normalized[Len(normalized) - 1] = "/"
    IN IF transport = "SSE" /\ normalized # <<>>
       THEN IF endsMessages THEN normalized \o << "/" >>
            ELSE normalized \o << "/", "messages", "/" >>
       ELSE normalized

\* step 4 of the loop body: "none" when the manifest is no mcp_server, "skip"
\* without a server url, "ok" or "error" after register_gateway was called.
\* Every exception of the step is caught (lines 276 and 287).
register_step(m, regOk) ==
    IF m.type # << "mcp_server" >> THEN "none"
    ELSE LET url == strip(m.server_url)
             url2 == IF url # <<>>
                     THEN _indicates_sse_messages_url(url, m.transport)
                     ELSE url
         IN IF url2 = <<>> THEN "skip"
            ELSE IF regOk THEN "ok" ELSE "error"

\* ------------------------------------------------------------------------
\* src/services/ingest.py: the body of the apply loop for one manifest
\* ------------------------------------------------------------------------

StepResult(st, bl, vecs, upserted, embedded, commits, raised, reg, uid, batch) ==
    [st |-> st, blobs |-> bl, vectors |-> vecs, upserted |-> upserted,
     embedded |-> embedded, commits |-> commits, raised |-> raised, reg |-> reg,
     uid |-> uid, batch |-> batch]

\* variant: a failed registration reaches the loop's except clause
after_embed_reg_raises(m, s2, ce, regOk) ==
    IF ce.raised # ""
    THEN StepResult(s2.st, ce.blobs, ce.vectors, 1, 0, 1, ce.raised, "none", s2.uid, <<>>)
    ELSE StepResult(s2.st, ce.blobs, ce.vectors, 1, ce.count, 1,
                    IF register_step(m, regOk) = "error" THEN "GatewayError" ELSE "",
                    register_step(m, regOk), s2.uid, ce.batch)

\* lines 235-292: the outcome of _chunk_and_embed, then registration; an
\* exception of _chunk_and_embed reaches the loop's except clause with the
\* entity already counted
after_embed(m, s2, ce, regOk) ==
    IF ce.raised # ""
    THEN StepResult(s2.st, ce.blobs, ce.vectors, 1, 0, 1, ce.raised, "none", s2.uid, <<>>)
    ELSE StepResult(s2.st, ce.blobs, ce.vectors, 1, ce.count, 1, "",
                    register_step(m, regOk), s2.uid, ce.batch)

\* lines 228-235: the outcome of _upsert_entity_from_manifest, the count,
\* `if do_embed: _chunk_and_embed`
after_upsert(m, s2, bl, vecs, do_embed, in) ==
    IF s2.raised # ""
    THEN StepResult(s2.st, bl, vecs, 0, 0, 1, s2.raised, "none", NoneSeq, <<>>)
    ELSE after_embed(m, s2,
                     IF do_embed
                     THEN _chunk_and_embed(RowOf(s2.st.rows, s2.uid), m, bl, vecs,
                                           in.blobPuts)
                     ELSE [raised |-> "", blobs |-> bl, vectors |-> vecs, count |-> 0,
                           batch |-> <<>>],
                     in.regOk)

\* lines 187-228: the outcome of save_entity, then _upsert_entity_from_manifest
after_save(m, m_url, s1, bl, vecs, do_embed, in) ==
    IF s1.raised # ""
    THEN StepResult(s1.st, bl, vecs, 0, 0, 0, s1.raised, "none", NoneSeq, <<>>)
    ELSE after_upsert(m, _upsert_entity_from_manifest(m, s1.st, m_url), bl, vecs,
                      do_embed, in)

\* lines 174-297, the loop body: save_entity, _upsert_entity_from_manifest, the
\* count, _chunk_and_embed, registration; `raised` is the exception the loop's
\* except clauses caught ("" when none), `commits` the commits it made
process_manifest(m, m_url, st, bl, vecs, do_embed, in) ==
    after_save(m, m_url, save_entity(m, st, in.commitOk), bl, vecs, do_embed, in)

\* ------------------------------------------------------------------------
\* The documents the remotes serve
\* ------------------------------------------------------------------------

\* a manifest with every key absent
Blank ==
    [mapping |-> TRUE, type |-> NoneSeq, id |-> NoneSeq, version |-> NoneSeq,
     name |-> None, summary |-> None, description |-> None,
     capabilities |-> NoneSeq, source_url |-> None, readme |-> <<>>,
     artifacts_empty |-> TRUE, violations |-> {},
     server_url |-> <<>>, transport |-> ""]

\* a YAML document that is not a mapping
NotAMapping == [Blank EXCEPT !.mapping = FALSE]

\* worker's "no manifest" (None)
NoManifest == NotAMapping

HelloTool ==
    [Blank EXCEPT !.type = << "tool" >>, !.id = << "hello" >>,
                  !.version = << "0.1.0" >>, !.name = "Hello Tool",
                  !.artifacts_empty = FALSE]

HelloFull ==
    [HelloTool EXCEPT !.summary = "Says hello", !.capabilities = << "greet" >>,
                      !.readme = << "README-LONG-1", "README-LONG-2" >>]

HelloBlanked ==
    [HelloTool EXCEPT !.name = "", !.summary = "", !.description = "Greeter",
                      !.capabilities = <<>>, !.readme = << "README-LONG-2" >>]

HelloPadded == [HelloTool EXCEPT !.id = << WS, "hello" >>]

Server ==
    [Blank EXCEPT !.type = << "mcp_server" >>, !.id = << "srv" >>,
                  !.version = << "1.0" >>, !.name = "Srv",
                  !.violations = { "artifacts" },
                  !.server_url = << "http://gw", "/" >>, !.transport = "SSE"]

ServerBroken == [Server EXCEPT !.violations = { "artifacts", "license" }, !.summary = "x"]

AgentInvalid ==
    [Blank EXCEPT !.type = << "agent" >>, !.id = << "a" >>, !.version = << "1" >>,
                  !.artifacts_empty = FALSE, !.violations = { "name" }]

BlankId ==
    [HelloTool EXCEPT !.id = << WS >>, !.name = "Ghost"]

URLs == { "u1", "u2" }

\* what a GET of a manifest URL may return at different times
Content(u) ==
    CASE u = "u1" -> { HelloFull, HelloBlanked }
      [] u = "u2" -> { Server, ServerBroken, AgentInvalid, HelloPadded, BlankId,
                       NotAMapping }

Manifests == UNION { Content(u) : u \in URLs } \ { NotAMapping }

Remotes == << "r1", "r2" >>

\* _extract_manifest_urls of the index a remote serves
IndexOf(r) ==
    CASE r = "r1" -> << "u1", "u2" >>
      [] r = "r2" -> << "u1" >>

\* ------------------------------------------------------------------------
\* src/services/ingest.py: fetch, parse, validate
\* ------------------------------------------------------------------------

\* validate_manifest raises when the schema reports a violation
validate_raises(m) == m.violations # {}

\* _maybe_validate: "ok" returns the manifest, "skip" raises SkipManifest
_maybe_validate(m, wired) ==
    IF ~ wired THEN "ok"
    ELSE IF ~ validate_raises(m) THEN "ok"
    ELSE IF m.type = << "mcp_server" >> /\ m.artifacts_empty THEN "ok"
    ELSE "skip"

\* worker(u): (manifest_or_none, error_or_none, is_skip) for what the GET gave;
\* ~ fetchOk is a network error, a timeout or an HTTP error status
worker(got, fetchOk, wired) ==
    IF ~ fetchOk
    THEN [manifest |-> NoManifest, err |-> "error", is_skip |-> FALSE]
    ELSE IF ~ got.mapping
    THEN [manifest |-> NoManifest, err |-> "Invalid YAML", is_skip |-> TRUE]
    ELSE IF _maybe_validate(got, wired) = "skip"
    THEN [manifest |-> NoManifest, err |-> "Schema validation failed", is_skip |-> TRUE]
    ELSE [manifest |-> got, err |-> "", is_skip |-> FALSE]

\* the body of the as_completed loop for one future: "append" the manifest to
\* the results, or log; nothing is raised
on_completed(r) ==
    IF r.manifest # NoManifest THEN "append"
    ELSE IF r.is_skip THEN "log_skip"
    ELSE "log_error"

\* settings.INGEST_MAX_FETCH_WORKERS, the size of the fetch pool
MaxFetchWorkers == 2

\* the most blob writes that succeed before one fails
MaxBlobPuts == 2

\* ------------------------------------------------------------------------
\* State
\* ------------------------------------------------------------------------

VARIABLES
    store,      \* the entity table: db = committed rows, rows = the open
                \* session's view, state = "ok" | "deactive", txn = a
                \* transaction holds a connection
    blobs,      \* the files of the blob store
    vectors,    \* the rows of embedding_chunk
    validator,  \* services.validate can be imported
    pc,         \* where the calling thread is; "done" once the call has ended
    entry,      \* the entry point called: "ingest_all" | "ingest_index" | ""
    remotes,    \* ingest_all: the remote list
    ri,         \* ingest_all: index of the current remote
    remote,     \* _ingest_remote: its remote
    urls,       \* _ingest_remote: manifest_urls
    wstate,     \* per URL: the state of its future in the pool
    wresult,    \* per URL: the tuple its worker returned
    fetched,    \* the list _prefetch_manifests builds, then the part of it
                \* the apply loop has not reached
    res,        \* RemoteIngestResult
    stats,      \* IngestStats
    outcome,    \* how the last entry point ended: "returned" | "raised" | ""
    hist        \* history, for stating properties (no code reads it)

VARIABLES
    catalog,    \* search: the entity table a search reads, and the uids whose
                \* gateway registration succeeded
    call,       \* the last call of a library entry point and its result
    objects,    \* the Entity instances the session's identity map holds: per
                \* uid the attributes set on the instance that no column maps
    tagsSeen    \* history: per uid the protocol tags ingests have given it

ingestVars == << store, blobs, vectors, validator, pc, entry, remotes, ri, remote,
                 urls, wstate, wresult, fetched, res, stats, outcome, hist >>

libVars == << catalog, call, objects, tagsSeen >>

vars == << ingestVars, libVars >>

NoResult == [manifest |-> NoManifest, err |-> "", is_skip |-> FALSE]

ZeroRes == [manifests_seen |-> 0, entities_upserted |-> 0, embeddings_upserted |-> 0]

ZeroStats ==
    [remotes |-> 0, manifests_seen |-> 0, entities_upserted |-> 0,
     embeddings_upserted |-> 0, errors |-> 0]

\* history of the current call
ZeroHist ==
    [commits |-> 0,          \* session commits since _ingest_remote began
     midCommits |-> 0,       \* those made before the apply loop ended
     dbAtStart |-> {},       \* committed rows when _ingest_remote began
     applied |-> {},         \* URLs whose manifest the apply loop took
     sessThreads |-> {},     \* threads that used the session
     step |-> [url |-> "", raised |-> "", reg |-> "none", upserted |-> 0,
               uid |-> NoneSeq, manifest |-> NoManifest, batch |-> <<>>,
               op |-> ""],
     remoteEnd |-> "",       \* how _ingest_remote ended: "returned"|"index"|"commit"
     failed |-> 0,           \* manifests of the remote that were skipped or failed
     keys |-> {},            \* the (type, id, version) of the manifests applied
     chunks |-> {},          \* per uid, the chunk ids of its last _chunk_and_embed
     log |-> <<>>]           \* ingest_all: per remote, in order, how it ended

IngestInit ==
    /\ store = [db |-> {}, rows |-> {}, state |-> "ok", txn |-> FALSE]
    /\ blobs = {}
    /\ vectors = {}
    /\ validator \in BOOLEAN
    /\ pc = "idle"
    /\ entry = ""
    /\ remotes = <<>>
    /\ ri = 0
    /\ remote = ""
    /\ urls = <<>>
    /\ wstate = [u \in URLs |-> "none"]
    /\ wresult = [u \in URLs |-> NoResult]
    /\ fetched = <<>>
    /\ res = ZeroRes
    /\ stats = ZeroStats
    /\ outcome = ""
    /\ hist = ZeroHist

NoCall == [op |-> "none"]

\* nothing outside the ingest has run
LibIdle ==
    /\ catalog = [rows |-> {}, ready |-> {}]
    /\ call = NoCall
    /\ objects = << >>
    /\ tagsSeen = << >>

Init == IngestInit /\ LibIdle

\* a new Session() on the same database
NewSession(st) == [db |-> st.db, rows |-> st.db, state |-> "ok", txn |-> FALSE]

\* session.rollback()
Rollback(st) == [db |-> st.db, rows |-> st.db, state |-> "ok", txn |-> FALSE]

\* session.commit(): "" or the exception; a commit with no transaction open
\* sends nothing to the database and cannot fail
Commit(st, commitOk) ==
    IF st.state = "deactive"
    THEN [raised |-> "PendingRollbackError", st |-> st]
    ELSE IF st.txn /\ ~ commitOk
    THEN [raised |-> "OperationalError", st |-> Rollback(st)]
    ELSE [raised |-> "",
          st |-> [db |-> st.rows, rows |-> st.rows, state |-> "ok", txn |-> FALSE]]

\* ------------------------------------------------------------------------
\* Actions: ingest_all, ingest_index, _ingest_remote, _prefetch_manifests
\* ------------------------------------------------------------------------

RemoteLists == { <<>>, << "r2" >>, Remotes }

\* the history when _ingest_remote is entered
EnterRemote(h, st) ==
    [h EXCEPT !.commits = 0, !.midCommits = 0, !.dbAtStart = st.db,
              !.applied = {}, !.sessThreads = {}, !.remoteEnd = "", !.failed = 0,
              !.step = ZeroHist.step]

\* ingest_all(remotes): nothing to do for an empty list, else a session_scope
\* and the first remote
CallIngestAll ==
    /\ UNCHANGED libVars
    /\ pc = "idle"
    /\ entry' = "ingest_all"
    /\ \E rs \in RemoteLists :
         /\ remotes' = rs
         /\ stats' = [ZeroStats EXCEPT !.remotes = Len(rs)]
         /\ IF rs = <<>>
            THEN /\ pc' = "done"
                 /\ outcome' = "returned"
                 /\ ri' = 0
                 /\ remote' = ""
                 /\ store' = store
                 /\ hist' = ZeroHist
            ELSE /\ pc' = "index"
                 /\ outcome' = ""
                 /\ ri' = 1
                 /\ remote' = rs[1]
                 /\ store' = NewSession(store)
                 /\ hist' = EnterRemote(ZeroHist, store)
    /\ urls' = <<>>
    /\ wstate' = [u \in URLs |-> "none"]
    /\ wresult' = [u \in URLs |-> NoResult]
    /\ fetched' = <<>>
    /\ res' = ZeroRes
    /\ UNCHANGED << blobs, vectors, validator >>

\* ingest_index(db, index_url) on the request's session
CallIngestIndex ==
    /\ UNCHANGED libVars
    /\ pc = "idle"
    /\ \E r \in SeqRange(Remotes) :
         /\ remote' = r
         /\ pc' = "index"
         /\ outcome' = ""
         /\ store' = NewSession(store)
         /\ hist' = EnterRemote(ZeroHist, store)
    /\ entry' = "ingest_index"
    /\ remotes' = <<>>
    /\ ri' = 0
    /\ stats' = ZeroStats
    /\ urls' = <<>>
    /\ wstate' = [u \in URLs |-> "none"]
    /\ wresult' = [u \in URLs |-> NoResult]
    /\ fetched' = <<>>
    /\ res' = ZeroRes
    /\ UNCHANGED << blobs, vectors, validator >>

\* _fetch_json + _extract_manifest_urls, then the submits of _prefetch_manifests;
\* a failed GET of the index raises out of _ingest_remote
FetchIndex ==
    /\ UNCHANGED libVars
    /\ pc = "index"
    /\ \E ok \in BOOLEAN :
         IF ok
         THEN /\ urls' = IndexOf(remote)
              /\ res' = [ZeroRes EXCEPT !.manifests_seen = Len(IndexOf(remote))]
              /\ wstate' = [u \in URLs |->
                              IF u \in SeqRange(IndexOf(remote)) THEN "queued" ELSE "none"]
              /\ pc' = IF IndexOf(remote) = <<>> THEN "apply" ELSE "prefetch"
              /\ hist' = hist
         ELSE /\ pc' = "remote_done"
              /\ hist' = [hist EXCEPT !.remoteEnd = "index"]
              /\ UNCHANGED << urls, res, wstate >>
    /\ UNCHANGED << store, blobs, vectors, validator, entry, remotes, ri, remote,
                    wresult, fetched, stats, outcome >>

Running == { u \in URLs : wstate[u] = "running" }

\* the pool takes a queued task when a thread is free
WorkerStart(u) ==
    /\ UNCHANGED libVars
    /\ pc = "prefetch"
    /\ wstate[u] = "queued"
    /\ Cardinality(Running) < MaxFetchWorkers
    /\ wstate' = [wstate EXCEPT ![u] = "running"]
    /\ UNCHANGED << store, blobs, vectors, validator, pc, entry, remotes, ri, remote,
                    urls, wresult, fetched, res, stats, outcome, hist >>

\* worker(u) runs to its return; it touches no session
WorkerFinish(u) ==
    /\ UNCHANGED libVars
    /\ pc = "prefetch"
    /\ wstate[u] = "running"
    /\ \E got \in Content(u), fetchOk \in BOOLEAN :
         wresult' = [wresult EXCEPT ![u] = worker(got, fetchOk, validator)]
    /\ wstate' = [wstate EXCEPT ![u] = "done"]
    /\ UNCHANGED << store, blobs, vectors, validator, pc, entry, remotes, ri, remote,
                    urls, fetched, res, stats, outcome, hist >>

\* as_completed yields a finished future; the loop body appends or logs
Collect(u) ==
    /\ UNCHANGED libVars
    /\ pc = "prefetch"
    /\ wstate[u] = "done"
    /\ wstate' = [wstate EXCEPT ![u] = "yielded"]
    /\ fetched' = IF on_completed(wresult[u]) = "append"
                  THEN Append(fetched, [url |-> u, manifest |-> wresult[u].manifest])
                  ELSE fetched
    /\ hist' = IF on_completed(wresult[u]) = "append" THEN hist
               ELSE [hist EXCEPT !.failed = @ + 1]
    /\ UNCHANGED << store, blobs, vectors, validator, pc, entry, remotes, ri, remote,
                    urls, wresult, res, stats, outcome >>

\* variant: the loop over as_completed stops at the first failed future
prefetch_returns_first_error ==
    \/ \A u \in SeqRange(urls) : wstate[u] = "yielded"
    \/ \E u \in SeqRange(urls) : wstate[u] = "yielded" /\ wresult[u].manifest = NoManifest

\* variant: the executor is left without waiting for the running workers
prefetch_returns_no_wait == \A u \in SeqRange(urls) : wstate[u] # "queued"

\* as_completed is exhausted once every future was yielded; the executor's
\* with-block ends and _prefetch_manifests returns
prefetch_returns == \A u \in SeqRange(urls) : wstate[u] = "yielded"

PrefetchReturn ==
    /\ UNCHANGED libVars
    /\ pc = "prefetch"
    /\ prefetch_returns
    /\ pc' = "apply"
    /\ UNCHANGED << store, blobs, vectors, validator, entry, remotes, ri, remote,
                    urls, wstate, wresult, fetched, res, stats, outcome, hist >>

\* the (type, id, version) a manifest carries
ManifestKey(m) == << m.type, m.id, m.version >>

\* the chunk ids of a list of chunk texts
ChunkIds(batch) == { ChunkId(batch[i]) : i \in 1..Len(batch) }

\* one iteration of `for m_url, manifest in fetched`
ApplyNext ==
    /\ UNCHANGED libVars
    /\ pc = "apply"
    /\ fetched # <<>>
    /\ \E commitOk \in BOOLEAN, blobPuts \in 0..MaxBlobPuts, regOk \in BOOLEAN :
         \E r \in { process_manifest(Head(fetched).manifest, Head(fetched).url, store,
                                     blobs, vectors, TRUE,
                                     [commitOk |-> commitOk, blobPuts |-> blobPuts,
                                      regOk |-> regOk]) } :
            /\ store' = r.st
            /\ blobs' = r.blobs
            /\ vectors' = r.vectors
            /\ res' = [res EXCEPT
                         !.entities_upserted = @ + r.upserted,
                         !.embeddings_upserted = @ + r.embedded]
            /\ hist' = [hist EXCEPT
                          !.commits = @ + r.commits,
                          !.midCommits = @ + r.commits,
                          !.applied = @ \cup { Head(fetched).url },
                          !.failed = IF r.raised # "" THEN @ + 1 ELSE @,
                          !.sessThreads = @ \cup { "main" },
                          !.keys = @ \cup { ManifestKey(Head(fetched).manifest) },
                          !.chunks = IF r.batch = <<>> THEN @
                                     ELSE { c \in @ : c.uid # r.uid }
                                          \cup { [uid |-> r.uid, ids |-> ChunkIds(r.batch)] },
                          !.step = [url |-> Head(fetched).url, raised |-> r.raised,
                                    reg |-> r.reg, upserted |-> r.upserted,
                                    uid |-> r.uid, manifest |-> Head(fetched).manifest,
                                    batch |-> r.batch, op |-> "apply"]]
    /\ fetched' = Tail(fetched)
    /\ UNCHANGED << validator, pc, entry, remotes, ri, remote, urls, wstate, wresult,
                    stats, outcome >>

\* lines 299-315: db.commit(); on failure db.rollback() and raise
CommitRemote ==
    /\ UNCHANGED libVars
    /\ pc = "apply"
    /\ fetched = <<>>
    /\ \E commitOk \in BOOLEAN :
         \E c \in { Commit(store, commitOk) } :
            IF c.raised = ""
            THEN /\ store' = c.st
                 /\ hist' = [hist EXCEPT !.commits = @ + 1, !.remoteEnd = "returned",
                                         !.sessThreads = @ \cup { "main" }]
            ELSE /\ store' = Rollback(c.st)
                 /\ hist' = [hist EXCEPT !.remoteEnd = "commit",
                                         !.sessThreads = @ \cup { "main" }]
    /\ pc' = "remote_done"
    /\ UNCHANGED << blobs, vectors, validator, entry, remotes, ri, remote, urls,
                    wstate, wresult, fetched, res, stats, outcome >>

\* variant: the result of a remote that raised is added as well
ingest_all_account_partial(s, rs, how) ==
    [s EXCEPT !.manifests_seen = @ + rs.manifests_seen,
              !.entities_upserted = @ + rs.entities_upserted,
              !.embeddings_upserted = @ + rs.embeddings_upserted,
              !.errors = IF how = "returned" THEN @ ELSE @ + 1]

\* ingest_all's loop body around _ingest_remote: add the result, or count the
\* error; the stats after a remote that ended `how`
ingest_all_account(s, rs, how) ==
    IF how = "returned"
    THEN [s EXCEPT !.manifests_seen = @ + rs.manifests_seen,
                   !.entities_upserted = @ + rs.entities_upserted,
                   !.embeddings_upserted = @ + rs.embeddings_upserted]
    ELSE [s EXCEPT !.errors = @ + 1]

\* the caller of _ingest_remote takes over: ingest_all accounts and goes on to
\* the next remote or to the end of its session_scope; ingest_index returns the
\* result or re-raises
AfterRemote ==
    /\ UNCHANGED libVars
    /\ pc = "remote_done"
    /\ IF entry = "ingest_all"
       THEN /\ stats' = ingest_all_account(stats, res, hist.remoteEnd)
            /\ IF ri < Len(remotes)
               THEN /\ ri' = ri + 1
                    /\ remote' = remotes[ri + 1]
                    /\ pc' = "index"
                    /\ res' = ZeroRes
                    /\ urls' = <<>>
                    /\ wstate' = [u \in URLs |-> "none"]
                    /\ wresult' = [u \in URLs |-> NoResult]
                    /\ fetched' = <<>>
                    /\ hist' = EnterRemote(
                                 [hist EXCEPT !.log = Append(@,
                                    [remote |-> remote, how |-> hist.remoteEnd,
                                     res |-> res])], store)
               ELSE /\ pc' = "scope_exit"
                    /\ hist' = [hist EXCEPT !.log = Append(@,
                                  [remote |-> remote, how |-> hist.remoteEnd, res |-> res])]
                    /\ UNCHANGED << ri, remote, res, urls, wstate, wresult, fetched >>
            /\ UNCHANGED outcome
       ELSE /\ pc' = "done"
            /\ outcome' = IF hist.remoteEnd = "returned" THEN "returned" ELSE "raised"
            /\ UNCHANGED << stats, ri, remote, res, urls, wstate, wresult, fetched,
                            hist >>
    /\ UNCHANGED << store, blobs, vectors, validator, entry, remotes >>

\* the end of `with session_scope() as db`: commit, or rollback and raise
ScopeExit ==
    /\ UNCHANGED libVars
    /\ pc = "scope_exit"
    /\ \E commitOk \in BOOLEAN :
         \E c \in { Commit(store, commitOk) } :
            /\ store' = IF c.raised = "" THEN c.st ELSE Rollback(c.st)
            /\ outcome' = IF c.raised = "" THEN "returned" ELSE "raised"
    /\ pc' = "done"
    /\ UNCHANGED << blobs, vectors, validator, entry, remotes, ri, remote, urls,
                    wstate, wresult, fetched, res, stats, hist >>

Next ==
    \/ CallIngestAll
    \/ CallIngestIndex
    \/ FetchIndex
    \/ \E u \in URLs : WorkerStart(u)
    \/ \E u \in URLs : WorkerFinish(u)
    \/ \E u \in URLs : Collect(u)
    \/ PrefetchReturn
    \/ ApplyNext
    \/ CommitRemote
    \/ AfterRemote
    \/ ScopeExit

Spec == Init /\ [][Next]_vars


\* ------------------------------------------------------------------------
\* Properties
\* ------------------------------------------------------------------------

\* the step taken is one iteration of the apply loop
ApplyStep == pc = "apply" /\ fetched # <<>> /\ fetched' = Tail(fetched)

BlankText(v) == v = None \/ v = ""

BlankList(v) == v = NoneSeq \/ v = <<>>

\* the chunk ids embedding_chunk holds for an entity
StoredVectors(vecs, uid) == { v.chunk_id : v \in { w \in vecs : w.entity_uid = uid } }

\* the chunk ids the blob store holds for an entity
StoredBlobs(bl, uid) == { k[2] : k \in { b \in bl : b[1] = Sanitize(uid, FALSE) } }

\* the sum of a counter over the remotes of the log that returned
RECURSIVE SumReturned(_, _)
SumReturned(log, f) ==
    IF log = <<>> THEN 0
    ELSE (IF Head(log).how = "returned" THEN Head(log).res[f] ELSE 0)
         + SumReturned(Tail(log), f)

\* the number of remotes of the log that raised
Failed(log) == Cardinality({ i \in 1..Len(log) : log[i].how # "returned" })

\* the URLs of the current remote whose worker returned a manifest
Succeeded == { u \in SeqRange(urls) : wresult[u].manifest # NoManifest }

\* C1: idempotent upsert: the entity store never holds more rows than distinct
\* (type, id, version) triples were ingested, so an ingest of a triple creates
\* at most one row and a later ingest of it adds none.
C1_OneRowPerKey == Cardinality(store.rows) <= Cardinality(hist.keys)

\* C2: coalesce semantics: when the apply loop has ingested a manifest whose uid
\* was already stored and whose name, summary, description or capability list
\* is absent, null or empty, the stored non-empty value of that field is the
\* same after the step as before it.
C2_CoalesceKeeps ==
    [][ (/\ ApplyStep
         /\ hist'.step.raised = ""
         /\ HasRow(store.rows, _entity_uid(Head(fetched).manifest)))
        => /\ \A f \in { "name", "summary", "description" } :
                 (/\ BlankText(Head(fetched).manifest[f])
                  /\ ~ BlankText(RowOf(store.rows, hist'.step.uid)[f]))
                 => RowOf(store'.rows, hist'.step.uid)[f]
                      = RowOf(store.rows, hist'.step.uid)[f]
           /\ (/\ BlankList(Head(fetched).manifest.capabilities)
               /\ ~ BlankList(RowOf(store.rows, hist'.step.uid).capabilities))
              => RowOf(store'.rows, hist'.step.uid).capabilities
                   = RowOf(store.rows, hist'.step.uid).capabilities ]_vars

\* C3: chunk replace-on-reingest: when an entity that was chunked before is
\* ingested again and its corpus gives other chunks, then after the step the
\* chunk ids stored for it, in embedding_chunk and in the blob store, are
\* exactly the chunk ids of the new corpus.
C3_ChunksReplaced ==
    [][ (/\ ApplyStep
         /\ hist'.step.raised = ""
         /\ hist'.step.batch # <<>>
         /\ \E c \in hist.chunks :
               c.uid = hist'.step.uid /\ c.ids # ChunkIds(hist'.step.batch))
        => /\ StoredVectors(vectors', hist'.step.uid) = ChunkIds(hist'.step.batch)
           /\ StoredBlobs(blobs', hist'.step.uid) = ChunkIds(hist'.step.batch) ]_vars

\* C4: per-item isolation of the fetch phase: once _prefetch_manifests has
\* returned, every worker of the remote has run to its return (none was
\* cancelled), every URL whose worker returned a manifest is in the returned
\* list with that manifest or was already taken by the apply loop, and when
\* the remote ends each of them was applied; the remote never ends by an
\* exception of the fetch phase.
C4_PerItemIsolation ==
    /\ pc \in { "apply", "remote_done" } /\ hist.remoteEnd # "index"
       => /\ \A u \in SeqRange(urls) :
                /\ wstate[u] = "yielded"
                /\ wresult[u] # NoResult
          /\ \A u \in Succeeded :
                \/ u \in hist.applied
                \/ \E i \in 1..Len(fetched) :
                      fetched[i] = [url |-> u, manifest |-> wresult[u].manifest]
    /\ pc = "remote_done" /\ hist.remoteEnd # "index" => hist.applied = Succeeded
    /\ hist.remoteEnd \in { "", "index", "returned", "commit" }

\* a remote ended with one URL failed in the fetch phase and another applied
C4_Witness ==
    /\ pc = "remote_done"
    /\ hist.remoteEnd = "returned"
    /\ \E u \in SeqRange(urls) : wresult[u].manifest = NoManifest /\ ~ wresult[u].is_skip
    /\ \E u \in SeqRange(urls) : u \in hist.applied /\ res.entities_upserted > 0

\* C5: one commit per remote: while _ingest_remote runs no commit is made
\* before the apply loop has ended, and when it returns exactly one commit was
\* made.
C5_CommitOnce ==
    /\ hist.midCommits = 0
    /\ hist.remoteEnd = "returned" => hist.commits = 1

\* C6: a failed end-of-remote commit leaves nothing of the batch: when
\* _ingest_remote has raised on its final commit, the committed rows are the
\* ones committed when it began.
C6_NothingPersisted ==
    hist.remoteEnd = "commit" => store.db = hist.dbAtStart

\* C7: ingest_all takes the remotes in list order, one log entry each; its
\* counters are the sums over the remotes that returned and errors is the
\* number that raised, at every moment and at the end, where it has taken
\* every remote and returns.
C7_IngestAllTotals ==
    entry = "ingest_all"
    => /\ Len(hist.log) <= Len(remotes)
       /\ \A i \in 1..Len(hist.log) : hist.log[i].remote = remotes[i]
       /\ stats.remotes = Len(remotes)
       /\ stats.manifests_seen = SumReturned(hist.log, "manifests_seen")
       /\ stats.entities_upserted = SumReturned(hist.log, "entities_upserted")
       /\ stats.embeddings_upserted = SumReturned(hist.log, "embeddings_upserted")
       /\ stats.errors = Failed(hist.log)
       /\ pc = "done" => outcome = "returned" /\ Len(hist.log) = Len(remotes)

\* ingest_all returned after its first remote raised on commit with entities
\* counted and its second remote returned
C7_Witness ==
    /\ entry = "ingest_all"
    /\ pc = "done"
    /\ Len(hist.log) = 2
    /\ hist.log[1].how = "commit"
    /\ hist.log[1].res.entities_upserted > 0
    /\ hist.log[2].how = "returned"
    /\ stats.errors = 1

\* C8: the session is used by the calling thread only, and not before the
\* fetch phase has ended: while the apply loop runs every worker of the remote
\* has finished and was collected, and while workers run the session of the
\* remote is untouched.
C8_SingleThreaded ==
    /\ hist.sessThreads \subseteq { "main" }
    /\ pc = "prefetch" => hist.sessThreads = {} /\ store = NewSession(store)
    /\ pc = "apply" => \A u \in URLs : wstate[u] \in { "none", "yielded" }

\* the apply loop has used the session after two workers ran
C8_Witness ==
    /\ pc = "apply"
    /\ hist.sessThreads = { "main" }
    /\ Len(urls) = 2
    /\ \A u \in SeqRange(urls) : wstate[u] = "yielded"

\* C9: best-effort registration: an apply step whose registration call failed
\* raises nothing, has its entity in the store and counted in
\* entities_upserted, and leaves the loop running.
C9_RegistrationBestEffort ==
    [][ (ApplyStep /\ hist'.step.reg = "error")
        => /\ hist'.step.raised = ""
           /\ HasRow(store'.rows, hist'.step.uid)
           /\ res'.entities_upserted = res.entities_upserted + 1
           /\ pc' = "apply" ]_vars

\* a registration failed and the loop has manifests left
C9_Witness ==
    /\ pc = "apply"
    /\ hist.step.reg = "error"
    /\ hist.step.upserted = 1
    /\ fetched # <<>>

\* the manifests validation lets through: no violation, or an mcp_server whose
\* sole violation is its empty artifact list
Acceptable(m) ==
    \/ m.violations = {}
    \/ m.type = << "mcp_server" >> /\ m.violations = { "artifacts" }

\* C10: with validation wired, every manifest the fetch phase returns and
\* every manifest the apply loop takes is acceptable.
C10_InvalidNeverUpserted ==
    validator
    => /\ \A i \in 1..Len(fetched) : Acceptable(fetched[i].manifest)
       /\ hist.step.op = "apply" => Acceptable(hist.step.manifest)

\* C11: per-item failures are counted: the result _ingest_remote returns
\* after manifests were skipped or failed carries an errors figure, equal to
\* the number of those manifests.
C11_ErrorsCounted ==
    hist.remoteEnd = "returned" /\ hist.failed > 0
    => "errors" \in DOMAIN res /\ res.errors = hist.failed

\* ------------------------------------------------------------------------
\* Scores.  A Python float that is a ratio of small integers is kept as the
\* reduced fraction << numerator, denominator >>, so that equal scores are
\* equal values.
\* ------------------------------------------------------------------------

RECURSIVE GCD(_, _)
GCD(a, b) == IF b = 0 THEN a ELSE GCD(b, a % b)

\* n / d for n >= 0, d > 0
Frac(n, d) == << n \div GCD(n, d), d \div GCD(n, d) >>

FZero == Frac(0, 1)

FOne == Frac(1, 1)

FLeq(x, y) == x[1] * y[2] <= y[1] * x[2]

FAdd(x, y) == Frac(x[1] * y[2] + y[1] * x[2], x[2] * y[2])

FMul(x, y) == Frac(x[1] * y[1], x[2] * y[2])

\* min(values), max(values) of a non-empty list of fractions
FMin(xs) == CHOOSE x \in SeqRange(xs) : \A y \in SeqRange(xs) : FLeq(x, y)

FMax(xs) == CHOOSE x \in SeqRange(xs) : \A y \in SeqRange(xs) : FLeq(y, x)

\* (v - vmin) / (vmax - vmin) for vmin <= v, vmin < vmax
FRatio(v, vmin, vmax) ==
    Frac((v[1] * vmin[2] - vmin[1] * v[2]) * vmax[2],
         (vmax[1] * vmin[2] - vmin[1] * vmax[2]) * v[2])

\* normalize_minmax, changed: equal values are mapped to 1.0
normalize_minmax_equal_to_one(values) ==
    IF values = <<>> THEN <<>>
    ELSE IF FLeq(FMax(values), FMin(values))
    THEN [i \in 1..Len(values) |-> FOne]
    ELSE [i \in 1..Len(values) |-> FRatio(values[i], FMin(values), FMax(values))]

\* services/search/util.py: normalize_minmax
normalize_minmax(values) ==
    IF values = <<>> THEN <<>>
    ELSE IF FLeq(FMax(values), FMin(values))
    THEN [i \in 1..Len(values) |-> FZero]
    ELSE [i \in 1..Len(values) |-> FRatio(values[i], FMin(values), FMax(values))]

\* the half-life of compute_recency_score, in the model's time unit
HALF_LIFE_DAYS == 1

\* the clock of a search call
NowTs == 4

\* None for a timestamp column
NoTs == -1

\* (a or b) for timestamps
TsOr(a, b) == IF a = NoTs THEN b ELSE a

\* variant: a missing timestamp scores like a fresh one
compute_recency_score_none_is_fresh(ts, now) ==
    Frac(1, 2 ^ (Max(0, now - TsOr(ts, now)) \div HALF_LIFE_DAYS))

\* services/search/util.py: compute_recency_score, 0.5 ** (age / half-life)
compute_recency_score(ts, now) ==
    IF ts = NoTs THEN FZero
    ELSE Frac(1, 2 ^ (Max(0, now - ts) \div HALF_LIFE_DAYS))

\* ------------------------------------------------------------------------
\* Keyword search: services/search/engine.py, lexical_none.py,
\* backends/pgtrgm.py.  Text columns are sequences of words here, so that
\* "q in name" and LIKE '%q%' are computed.
\* ------------------------------------------------------------------------

\* the mapped columns of Entity (models.py)
EntityColumns ==
    { "uid", "type", "name", "version", "summary", "description", "license",
      "homepage", "source_url", "tenant_id", "capabilities", "frameworks",
      "providers", "readme_blob_ref", "quality_score", "release_ts",
      "created_at", "updated_at" }

\* Entity.<name> resolves to a column; any other name raises AttributeError
HasColumn(c) == c \in EntityColumns

\* Hit is a TypedDict: at run time a dict, whose items are not attributes
HitAttributes == {}

\* str.lower(), word by word
LowerWord(w) ==
    CASE w = "Hello" -> "hello"
      [] w = "Tool" -> "tool"
      [] OTHER -> w

lower(s) == [i \in 1..Len(s) |-> LowerWord(s[i])]

\* sub in s
Contains(sub, s) ==
    \E i \in 0..(Len(s) - Len(sub)) : SubSeq(s, i + 1, i + Len(sub)) = sub

\* (v or "") for a text column
TextOr(v) == IF v = NoneSeq THEN <<>> ELSE v

SearchRow(rowid, t, i, v, name, summary, description, created_at) ==
    [rowid |-> rowid, uid |-> FormatUid(t, i, v), type |-> t, name |-> name,
     summary |-> summary, description |-> description, quality_score |-> 0,
     release_ts |-> NoTs, created_at |-> created_at]

\* the entities a table may hold: two whose uids differ in case only, and
\* one that mentions the first in its summary
SearchPool ==
    { SearchRow(1, << "tool" >>, << "hello" >>, << "1" >>,
                << "hello" >>, NoneSeq, NoneSeq, 1),
      SearchRow(2, << "tool" >>, << "Hello" >>, << "1" >>,
                << "Hello", "world" >>, << "greets" >>, << "hello" >>, 2),
      SearchRow(3, << "agent" >>, << "pdf" >>, << "1" >>,
                << "pdf" >>, << "uses", "hello" >>, NoneSeq, 3) }

\* ORDER BY created_at DESC
RECURSIVE OrderByCreatedDesc(_)
OrderByCreatedDesc(S) ==
    IF S = {} THEN <<>>
    ELSE LET m == CHOOSE r \in S : \A x \in S : x.created_at <= r.created_at
         IN << m >> \o OrderByCreatedDesc(S \ { m })

\* a query without ORDER BY: the rows in the table's own order
RECURSIVE InTableOrder(_)
InTableOrder(S) ==
    IF S = {} THEN <<>>
    ELSE LET m == CHOOSE r \in S : \A x \in S : r.rowid <= x.rowid
         IN << m >> \o InTableOrder(S \ { m })

\* xs[a:b] of Python, 0-based, for 0 <= a
Slice(xs, a, b) == SubSeq(xs, a + 1, Min(b, Len(xs)))

\* xs[a:]
SliceFrom(xs, a) == SubSeq(xs, a + 1, Len(xs))

\* the rows a READY-only SQL filter keeps
ReadyRows(rows, ready) == { r \in rows : r.uid \in ready }

\* lexical_none.py: search_like; raised = "" and the rows, or the exception
search_like(cat, q, types, include_pending, limit, offset) ==
    LET ql == lower(strip(q))
        typed == IF types # <<>> THEN { r \in cat.rows : r.type \in SeqRange(types) }
                 ELSE cat.rows
        matched(S) ==
            IF ql = <<>> THEN S
            ELSE { r \in S :
                     \/ r.name # NoneSeq /\ Contains(ql, lower(r.name))
                     \/ r.summary # NoneSeq /\ Contains(ql, lower(r.summary))
                     \/ r.description # NoneSeq /\ Contains(ql, lower(r.description)) }
    IN IF ~ include_pending
          /\ ~ (HasColumn("gateway_registered_at") /\ HasColumn("gateway_error"))
       THEN [raised |-> "AttributeError", rows |-> <<>>]
       ELSE [raised |-> "",
             rows |-> Slice(OrderByCreatedDesc(
                                matched(IF include_pending THEN typed
                                        ELSE ReadyRows(typed, cat.ready))),
                            offset, offset + limit)]

\* engine.py: _ready_filter_query
_ready_filter_query(S, ready, include_pending) ==
    IF include_pending THEN [raised |-> "", rows |-> S]
    ELSE IF ~ (HasColumn("gateway_registered_at") /\ HasColumn("gateway_error"))
    THEN [raised |-> "AttributeError", rows |-> {}]
    ELSE [raised |-> "", rows |-> ReadyRows(S, ready)]

LexHit(uid, score, quality, recency) ==
    [entity_id |-> uid, score |-> score, source |-> "lexical",
     quality |-> quality, recency |-> recency]

fallback_hit(rf) ==
    IF rf.raised # "" THEN [raised |-> rf.raised, hits |-> <<>>]
    ELSE IF rf.rows = {} THEN [raised |-> "", hits |-> <<>>]
    ELSE LET ent == OrderByCreatedDesc(rf.rows)[1]
         IN [raised |-> "",
             hits |-> << LexHit(ent.uid, FOne, Frac(ent.quality_score, 1),
                                compute_recency_score(
                                    TsOr(ent.release_ts, ent.created_at), NowTs)) >>]

\* engine.py: _fallback_uid_or_slug_hit
_fallback_uid_or_slug_hit(cat, q, types, include_pending) ==
    LET ql == lower(strip(q))
        byUid == IF Contains(<< ":" >>, ql) /\ Contains(<< "@" >>, ql)
                 THEN { r \in cat.rows : lower(r.uid) = ql }
                 ELSE { r \in cat.rows :
                          Contains(<< ":" >> \o ql \o << "@" >>, lower(r.uid)) }
        typed == IF types # <<>> THEN { r \in byUid : r.type \in SeqRange(types) }
                 ELSE byUid
    IN IF strip(q) = <<>> THEN [raised |-> "", hits |-> <<>>]
       ELSE fallback_hit(_ready_filter_query(typed, cat.ready, include_pending))

\* engine.py: _filter_ready_hits
_filter_ready_hits(cat, hits) ==
    IF hits = <<>> THEN [raised |-> "", hits |-> hits]
    ELSE IF "entity_id" \notin HitAttributes
    THEN [raised |-> "AttributeError", hits |-> <<>>]
    ELSE IF ~ (HasColumn("gateway_registered_at") /\ HasColumn("gateway_error"))
    THEN [raised |-> "AttributeError", hits |-> <<>>]
    ELSE [raised |-> "",
          hits |-> SelectSeq(hits, LAMBDA h : h.entity_id \in cat.ready)]

\* sorted(..., key=sim, reverse=True): stable, so equal sims keep their order
RECURSIVE SortBySimDesc(_)
SortBySimDesc(xs) ==
    IF xs = <<>> THEN <<>>
    ELSE LET i == CHOOSE j \in 1..Len(xs) :
                    /\ \A k \in 1..Len(xs) : FLeq(xs[k].sim, xs[j].sim)
                    /\ \A k \in 1..(j - 1) : xs[k].sim # xs[j].sim
         IN << xs[i] >> \o SortBySimDesc(SubSeq(xs, 1, i - 1) \o SubSeq(xs, i + 1, Len(xs)))

Candidate(r, sim) ==
    [uid |-> r.uid, type |-> r.type, quality_score |-> r.quality_score,
     ts |-> TsOr(r.release_ts, r.created_at), sim |-> sim]

\* the most similarity() is told apart into
MaxSim == 2

\* backends/pgtrgm.py: _fetch_candidates_pg; similarity() is Postgres's, here
\* the level simOf gives each row
_fetch_candidates_pg(rows, q, k, simOf) ==
    LET ql == lower(q)
        hit == { r \in rows :
                   \/ r.name # NoneSeq /\ Contains(ql, lower(r.name))
                   \/ r.summary # NoneSeq /\ Contains(ql, lower(r.summary))
                   \/ r.description # NoneSeq /\ Contains(ql, lower(r.description)) }
        cands == [i \in 1..Cardinality(hit) |->
                    Candidate(InTableOrder(hit)[i],
                              Frac(simOf[InTableOrder(hit)[i].rowid], MaxSim))]
    IN Slice(SortBySimDesc(cands), 0, Max(k * 4, 50))

\* 1 if q_l in field else 0
HitCount(ql, field) == IF Contains(ql, lower(TextOr(field))) THEN 1 ELSE 0

\* backends/pgtrgm.py: _fetch_candidates_fallback
_fetch_candidates_fallback(rows, q, k) ==
    LET ql == lower(q)
        cands == [i \in 1..Cardinality(rows) |->
                    Candidate(InTableOrder(rows)[i],
                              Frac(HitCount(ql, InTableOrder(rows)[i].name)
                                   + HitCount(ql, InTableOrder(rows)[i].summary), 2))]
    IN Slice(SortBySimDesc(cands), 0, Max(k * 4, 50))

\* the hits of backends/pgtrgm.py: search, from the filtered candidates
pgtrgm_hits(filtered, k) ==
    LET sims == IF filtered = <<>> THEN << FZero >>
                ELSE [i \in 1..Len(filtered) |-> filtered[i].sim]
    IN [i \in 1..Min(k, Len(filtered)) |->
          LexHit(filtered[i].uid, normalize_minmax(sims)[i],
                 Frac(filtered[i].quality_score, 1),
                 compute_recency_score(filtered[i].ts, NowTs))]

\* backends/pgtrgm.py: search; env is the deployment: engine, whether the
\* pg_trgm extension answers, and similarity()'s levels
pgtrgm_search(cat, q, f_type, k, env) ==
    IF env.engine = "postgresql" /\ ~ env.pgOk
    THEN [raised |-> "ProgrammingError", hits |-> <<>>]
    ELSE [raised |-> "",
          hits |-> pgtrgm_hits(
                     SelectSeq(IF env.engine = "postgresql"
                               THEN _fetch_candidates_pg(cat.rows, q, k, env.simOf)
                               ELSE _fetch_candidates_fallback(cat.rows, q, k),
                               LAMBDA row : f_type = <<>> \/ row.type = f_type),
                     k)]

\* the result of a keyword search: the exception or the hits, with the number
\* of hits the primary search had found (-1: it raised or did not run) and whether the
\* fallback was tried
KeywordResult(raised, hits, primary, fallback) ==
    [raised |-> raised, hits |-> hits, primary |-> primary, fallback |-> fallback]

\* engine.py: the end of run_pgtrgm and of run_keyword: offset, limit, and the
\* fallback when the slice is empty
slice_or_fallback(cat, q, types, include_pending, limit, offset, hits, primary) ==
    IF Slice(IF offset # 0 THEN SliceFrom(hits, offset) ELSE hits, 0, limit) # <<>>
    THEN KeywordResult("", Slice(IF offset # 0 THEN SliceFrom(hits, offset) ELSE hits,
                                 0, limit), primary, FALSE)
    ELSE KeywordResult(_fallback_uid_or_slug_hit(cat, q, types, include_pending).raised,
                       _fallback_uid_or_slug_hit(cat, q, types, include_pending).hits,
                       primary, TRUE)

\* engine.py: run_pgtrgm after the backend answered (found: its hits, or []
\* when it raised)
pgtrgm_filtered(cat, q, types, include_pending, limit, offset, found) ==
    IF ~ include_pending /\ _filter_ready_hits(cat, found).raised # ""
    THEN KeywordResult(_filter_ready_hits(cat, found).raised, <<>>, Len(found), FALSE)
    ELSE slice_or_fallback(cat, q, types, include_pending, limit, offset,
                           IF include_pending THEN found
                           ELSE _filter_ready_hits(cat, found).hits,
                           Len(found))

\* engine.py: run_pgtrgm
run_pgtrgm(cat, q, types, include_pending, limit, offset, env) ==
    IF ~ env.loaded THEN KeywordResult("", <<>>, -1, FALSE)
    ELSE pgtrgm_filtered(cat, q, types, include_pending, limit, offset,
             pgtrgm_search(cat, q, IF types # <<>> THEN types[1] ELSE <<>>,
                           Max(limit, 1), env).hits)

\* engine.py: run_keyword, the crude score of one row: hits / 3.0
like_score(ql, e) ==
    IF ql = <<>> THEN FZero
    ELSE Frac(HitCount(ql, e.name) + HitCount(ql, e.summary)
              + HitCount(ql, e.description), 3)

\* engine.py: run_keyword, the hits of the rows search_like returned
like_hits(ql, entities) ==
    LET sims_raw == [i \in 1..Len(entities) |-> like_score(ql, entities[i])]
        sims == IF sims_raw = <<>> THEN <<>>
                ELSE IF FLeq(FMax(sims_raw), FMin(sims_raw))
                THEN [i \in 1..Len(sims_raw) |-> FZero]
                ELSE normalize_minmax(sims_raw)
    IN [i \in 1..Len(entities) |->
          LexHit(entities[i].uid, sims[i], Frac(entities[i].quality_score, 1),
                 compute_recency_score(
                     TsOr(entities[i].release_ts, entities[i].created_at), NowTs))]

\* engine.py: run_keyword after search_like answered
like_found(cat, q, types, include_pending, limit, offset, sl) ==
    IF sl.raised # "" THEN KeywordResult(sl.raised, <<>>, -1, FALSE)
    ELSE slice_or_fallback(cat, q, types, include_pending, limit, offset,
                           like_hits(lower(strip(q)), sl.rows), Len(sl.rows))

\* engine.py: run_keyword; backend is settings.SEARCH_LEXICAL_BACKEND
run_keyword(cat, q, types, include_pending, limit, offset, backend, env) ==
    IF backend = "pgtrgm"
    THEN run_pgtrgm(cat, q, types, include_pending, limit, offset, env)
    ELSE like_found(cat, q, types, include_pending, limit, offset,
                    search_like(cat, q, types, include_pending, limit + offset, 0))

\* services/search/__init__.py: NullLexicalBackend.search, NullVectorBackend.search
null_search(kind) == [raised |-> "", hits |-> <<>>]

VecHit(uid, score, quality, recency) ==
    [entity_id |-> uid, score |-> score, source |-> "vector",
     quality |-> quality, recency |-> recency]

\* backends/pgvector.py: the hits of search, from the filtered candidates;
\* sim here is max(0, 1 - dist)
pgvector_hits(filtered, k) ==
    LET sims == IF filtered = <<>> THEN << FZero >>
                ELSE [i \in 1..Len(filtered) |-> filtered[i].sim]
    IN [i \in 1..Min(k, Len(filtered)) |->
          VecHit(filtered[i].uid, normalize_minmax(sims)[i],
                 Frac(filtered[i].quality_score, 1),
                 compute_recency_score(filtered[i].ts, NowTs))]

\* backends/pgvector.py: search; the cosine distance of a row's best chunk is
\* Postgres's, here the level env.simOf gives the row (0, 1 or 2)
pgvector_search(cat, f_type, k, env) ==
    IF env.engine # "postgresql" THEN [raised |-> "", hits |-> <<>>]
    ELSE IF ~ env.pgOk THEN [raised |-> "ProgrammingError", hits |-> <<>>]
    ELSE [raised |-> "",
          hits |-> pgvector_hits(
                     SelectSeq(
                       Slice(SortBySimDesc(
                               [i \in 1..Cardinality(cat.rows) |->
                                  Candidate(InTableOrder(cat.rows)[i],
                                            Frac(Max(0, 1 - env.simOf[InTableOrder(cat.rows)[i].rowid]), 1))]),
                             0, Max(k * 4, 50)),
                       LAMBDA row : f_type = <<>> \/ row.type = f_type),
                     k)]

\* ------------------------------------------------------------------------
\* Specification SpecSearch: a table of entities, and calls of run_keyword
\* ------------------------------------------------------------------------

MaxLimit == 2

MaxOffset == 2

Queries ==
    { <<>>, << WS >>, << "hello" >>, << "Hello" >>, << "world" >>,
      << "tool", ":", "hello", "@", "1" >>, << "Tool", ":", "Hello", "@", "1" >> }

TypeFilters == { <<>>, << << "tool" >> >> }

\* similarity() of the rows, by rowid
SimLevels ==
    { [i \in 1..3 |-> 1], [i \in 1..3 |-> i % 3], [i \in 1..3 |-> 3 - i] }

\* the deployments of the pg_trgm path: the backend module did not import,
\* SQLite, Postgres without the extension, Postgres
SearchEnvs ==
    { [loaded |-> FALSE, engine |-> "sqlite", pgOk |-> FALSE, simOf |-> [i \in 1..3 |-> 1]],
      [loaded |-> TRUE, engine |-> "sqlite", pgOk |-> FALSE, simOf |-> [i \in 1..3 |-> 1]],
      [loaded |-> TRUE, engine |-> "postgresql", pgOk |-> FALSE, simOf |-> [i \in 1..3 |-> 1]] }
    \cup { [loaded |-> TRUE, engine |-> "postgresql", pgOk |-> TRUE, simOf |-> f] :
             f \in SimLevels }

\* the deployment of the LIKE path
LikeEnv == [loaded |-> FALSE, engine |-> "sqlite", pgOk |-> FALSE, simOf |-> [i \in 1..3 |-> 1]]

Uids(rows) == { r.uid : r \in rows }

InitSearch ==
    /\ IngestInit
    /\ \E rows \in SUBSET SearchPool :
         \E ready \in SUBSET Uids(rows) :
           catalog = [rows |-> rows, ready |-> ready]
    /\ call = NoCall
    /\ objects = << >>
    /\ tagsSeen = << >>

\* a caller calls run_keyword(db, q, types, include_pending, limit, offset);
\* ref is what the same caller gets for (limit + offset, 0)
CallRunKeyword ==
    /\ call = NoCall
    /\ \E q \in Queries, types \in TypeFilters, include_pending \in BOOLEAN,
          limit \in 1..MaxLimit, offset \in 0..MaxOffset,
          backend \in { "none", "pgtrgm" } :
         \E env \in IF backend = "pgtrgm" THEN SearchEnvs ELSE { LikeEnv } :
           call' = [op |-> "run_keyword", q |-> q, types |-> types,
                    include_pending |-> include_pending, limit |-> limit,
                    offset |-> offset, backend |-> backend, env |-> env,
                    out |-> run_keyword(catalog, q, types, include_pending,
                                        limit, offset, backend, env),
                    ref |-> run_keyword(catalog, q, types, include_pending,
                                        limit + offset, 0, backend, env)]
    /\ UNCHANGED << catalog, objects, tagsSeen, ingestVars >>

\* a caller calls run_pgtrgm itself
CallRunPgtrgm ==
    /\ call = NoCall
    /\ \E q \in Queries, types \in TypeFilters, include_pending \in BOOLEAN,
          limit \in 1..MaxLimit, offset \in 0..MaxOffset, env \in SearchEnvs :
         call' = [op |-> "run_pgtrgm", q |-> q, types |-> types,
                  include_pending |-> include_pending, limit |-> limit,
                  offset |-> offset, env |-> env,
                  out |-> run_pgtrgm(catalog, q, types, include_pending,
                                     limit, offset, env)]
    /\ UNCHANGED << catalog, objects, tagsSeen, ingestVars >>

\* a caller calls search of the backend get_lexical_backend or
\* get_vector_backend gave when none is configured
CallNullSearch ==
    /\ call = NoCall
    /\ \E kind \in { "lexical", "vector" } :
         call' = [op |-> "null_search", kind |-> kind, out |-> null_search(kind)]
    /\ UNCHANGED << catalog, objects, tagsSeen, ingestVars >>

\* a caller calls pgvector.search(q_vector, filters, k, db)
CallPgvectorSearch ==
    /\ call = NoCall
    /\ \E f_type \in { <<>>, << "tool" >> }, k \in 1..MaxLimit, env \in SearchEnvs :
         /\ env.loaded
         /\ call' = [op |-> "pgvector_search", f_type |-> f_type, k |-> k,
                     env |-> env, out |-> pgvector_search(catalog, f_type, k, env)]
    /\ UNCHANGED << catalog, objects, tagsSeen, ingestVars >>

\* the call returns or raises to its caller
ReturnToCaller ==
    /\ call # NoCall
    /\ call' = NoCall
    /\ UNCHANGED << catalog, objects, tagsSeen, ingestVars >>

NextSearch ==
    \/ ReturnToCaller
    \/ CallRunKeyword
    \/ CallRunPgtrgm
    \/ CallNullSearch
    \/ CallPgvectorSearch

SpecSearch == InitSearch /\ [][NextSearch]_vars

\* the hits of a result refer to ready entities only
AllReady(cat, hits) == \A i \in 1..Len(hits) : hits[i].entity_id \in cat.ready

\* C12: visibility: a run_keyword call with include_pending false returns its
\* hits, and each of them, from the LIKE path, the pg_trgm path or the
\* fallback, is an entity registered with the gateway without error.
C12_ReadyOnly ==
    call.op = "run_keyword" /\ ~ call.include_pending
    => call.out.raised = "" /\ AllReady(catalog, call.out.hits)

\* the entity is one the call may return: of a requested type, and ready
\* unless pending entities were asked for
Visible(e, c) ==
    /\ c.types = <<>> \/ e.type \in SeqRange(c.types)
    /\ c.include_pending \/ e.uid \in catalog.ready

\* C13: exact-key fallback: when the primary search returned no hit for a
\* non-empty query equal, case-insensitively, to the uid of a visible entity,
\* run_keyword returns exactly one hit, for that entity, with score 1.0 and
\* source "lexical"; a result of the fallback never has more than one hit.
C13_ExactKeyFallback ==
    call.op = "run_keyword"
    => /\ \A e \in catalog.rows :
            call.out.primary = 0 /\ call.q # <<>> /\ lower(call.q) = lower(e.uid)
            /\ Visible(e, call)
            => /\ call.out.raised = ""
               /\ Len(call.out.hits) = 1
               /\ call.out.hits[1].entity_id = e.uid
               /\ call.out.hits[1].score = FOne
               /\ call.out.hits[1].source = "lexical"
       /\ call.out.fallback => Len(call.out.hits) <= 1

\* C14: offset and limit are a slice taken after ranking:
\* run_keyword(limit, offset) is elements [offset : offset + limit] of
\* run_keyword(limit + offset, 0), on both paths, and the fallback is tried
\* only when the primary search found no hit for a non-empty query.
C14_OffsetIsSlice ==
    call.op = "run_keyword"
    => /\ call.out.raised = call.ref.raised
       /\ call.out.raised = ""
          => call.out.hits = Slice(call.ref.hits, call.offset, call.offset + call.limit)
       /\ call.out.fallback /\ strip(call.q) # <<>> => call.out.primary = 0

\* C18: graceful degradation: search of the null backends, pgvector.search on
\* an engine that is not Postgres, and run_pgtrgm return a list of hits and
\* never raise to the caller.
C18_NeverRaises ==
    \/ call.op \in { "null_search", "run_pgtrgm" }
    \/ call.op = "pgvector_search" /\ call.env.engine # "postgresql"
    => call.out.raised = ""

\* ------------------------------------------------------------------------
\* Hybrid ranker: services/search/ranker.py
\* ------------------------------------------------------------------------

\* a key a Hit does not carry (Hit is total=False)
Absent == << 0, 0 >>

\* max of a non-empty set of fractions
FMaxOf(S) == CHOOSE x \in S : \A y \in S : FLeq(y, x)

\* variant: a duplicate keeps the score of the first occurrence
_to_map_first_wins(hits) ==
    [eid \in { hits[i].entity_id : i \in 1..Len(hits) } |->
       hits[CHOOSE i \in 1..Len(hits) :
              /\ hits[i].entity_id = eid
              /\ \A j \in 1..(i - 1) : hits[j].entity_id # eid]]

\* ranker.py: _to_map: per entity id its first hit, with the best score of
\* its duplicates
_to_map(hits) ==
    [eid \in { hits[i].entity_id : i \in 1..Len(hits) } |->
       [hits[CHOOSE i \in 1..Len(hits) :
                 /\ hits[i].entity_id = eid
                 /\ \A j \in 1..(i - 1) : hits[j].entity_id # eid]
          EXCEPT !.score = FMaxOf({ hits[i].score :
                                      i \in { j \in 1..Len(hits) : hits[j].entity_id = eid } })]]

\* map.get(eid, {}).get(key, 0.0)
GetOr0(map, eid, key) ==
    IF eid \notin DOMAIN map THEN FZero
    ELSE IF map[eid][key] = Absent THEN FZero
    ELSE map[eid][key]

\* x / 2.0
FHalf(x) == FMul(x, Frac(1, 2))

\* score_final of ranker.py
score_final(w, sem, lex, qual, rec) ==
    FAdd(FAdd(FAdd(FMul(w.semantic, sem), FMul(w.lexical, lex)),
              FMul(w.quality, qual)),
         FMul(w.recency, rec))

\* ranker.py, changed: the lexical term is left out of the final score
merged_entry_no_lexical(w, eid, lex_map, vec_map) ==
    [entity_id |-> eid,
     score_lexical |-> GetOr0(lex_map, eid, "score"),
     score_semantic |-> GetOr0(vec_map, eid, "score"),
     score_quality |-> FHalf(FAdd(GetOr0(lex_map, eid, "quality"),
                                  GetOr0(vec_map, eid, "quality"))),
     score_recency |-> FHalf(FAdd(GetOr0(lex_map, eid, "recency"),
                                  GetOr0(vec_map, eid, "recency"))),
     score_final |-> score_final(w, GetOr0(vec_map, eid, "score"), FZero,
                                 FHalf(FAdd(GetOr0(lex_map, eid, "quality"),
                                            GetOr0(vec_map, eid, "quality"))),
                                 FHalf(FAdd(GetOr0(lex_map, eid, "recency"),
                                            GetOr0(vec_map, eid, "recency"))))]

\* ranker.py: merge_and_score, the dict of one entity id
merged_entry(w, eid, lex_map, vec_map) ==
    [entity_id |-> eid,
     score_lexical |-> GetOr0(lex_map, eid, "score"),
     score_semantic |-> GetOr0(vec_map, eid, "score"),
     score_quality |-> FHalf(FAdd(GetOr0(lex_map, eid, "quality"),
                                  GetOr0(vec_map, eid, "quality"))),
     score_recency |-> FHalf(FAdd(GetOr0(lex_map, eid, "recency"),
                                  GetOr0(vec_map, eid, "recency"))),
     score_final |-> score_final(w, GetOr0(vec_map, eid, "score"),
                                 GetOr0(lex_map, eid, "score"),
                                 FHalf(FAdd(GetOr0(lex_map, eid, "quality"),
                                            GetOr0(vec_map, eid, "quality"))),
                                 FHalf(FAdd(GetOr0(lex_map, eid, "recency"),
                                            GetOr0(vec_map, eid, "recency"))))]

\* the lists merged.sort(key=score_final, reverse=True) may leave: the set
\* was iterated in some order, and equal scores keep it
SortedByFinal(S) ==
    { xs \in [1..Cardinality(S) -> S] :
        /\ \A i, j \in 1..Cardinality(S) : i # j => xs[i] # xs[j]
        /\ \A i \in 1..(Cardinality(S) - 1) : FLeq(xs[i + 1].score_final, xs[i].score_final) }

\* ranker.py: merge_and_score, as a set before the sort
merged_set(w, lex_map, vec_map) ==
    { merged_entry(w, eid, lex_map, vec_map) : eid \in DOMAIN lex_map \cup DOMAIN vec_map }

\* ranker.py: merge_and_score: the lists it may return
merge_and_score(w, lex_hits, vec_hits) ==
    SortedByFinal(merged_set(w, _to_map(SelectSeq(lex_hits, LAMBDA h : h.source = "lexical")),
                             _to_map(SelectSeq(vec_hits, LAMBDA h : h.source = "vector"))))

\* ------------------------------------------------------------------------
\* Specification SpecRank: calls of merge_and_score
\* ------------------------------------------------------------------------

MaxHits == 2

RankIds == { "X", "Y" }

\* the hits the lexical search may hand over: per entity two that differ in
\* score, one of them without a quality or a recency signal
LexHitPool ==
    { LexHit("X", Frac(4, 5), Frac(4, 5), Frac(1, 2)),
      LexHit("X", Frac(2, 5), Absent, Absent),
      LexHit("Y", Frac(4, 5), Absent, Frac(1, 2)),
      LexHit("Y", Frac(2, 5), Frac(4, 5), Absent) }

\* the hits the vector search may hand over
VecHitPool ==
    { VecHit("X", Frac(3, 5), Frac(2, 5), Frac(1, 4)),
      VecHit("X", Frac(1, 5), Absent, Absent),
      VecHit("Y", Frac(3, 5), Absent, Frac(1, 4)),
      VecHit("Y", Frac(1, 5), Frac(2, 5), Absent) }

SeqsUpTo(S, n) == UNION { [1..k -> S] : k \in 0..n }

\* settings.SEARCH_WEIGHTS: the defaults, and semantic and lexical alone
WeightSets ==
    { [semantic |-> Frac(11, 20), lexical |-> Frac(1, 4), quality |-> Frac(1, 10),
       recency |-> Frac(1, 10)],
      [semantic |-> Frac(1, 2), lexical |-> Frac(1, 2), quality |-> FZero,
       recency |-> FZero] }

InitRank ==
    /\ IngestInit
    /\ LibIdle

\* a caller calls merge_and_score(lex_hits, vec_hits)
CallMergeAndScore ==
    /\ call = NoCall
    /\ \E w \in WeightSets, lex_hits \in SeqsUpTo(LexHitPool, MaxHits),
          vec_hits \in SeqsUpTo(VecHitPool, MaxHits) :
         \E out \in merge_and_score(w, lex_hits, vec_hits) :
           call' = [op |-> "merge_and_score", w |-> w, lex_hits |-> lex_hits,
                    vec_hits |-> vec_hits, out |-> out]
    /\ UNCHANGED << catalog, objects, tagsSeen, ingestVars >>

NextRank ==
    \/ ReturnToCaller
    \/ CallMergeAndScore

SpecRank == InitRank /\ [][NextRank]_vars

\* the scores (or the signals under key) the hits of a list carry for eid
ValuesOf(hits, eid, key) ==
    { hits[i][key] : i \in { j \in 1..Len(hits) : hits[j].entity_id = eid } } \ { Absent }

IdsOf(hits) == { hits[i].entity_id : i \in 1..Len(hits) }

\* the score a result may show for a source: one of the entity's hit scores
\* there, none lower than it, or 0 without a hit
SourceScore(x, hits, eid) ==
    IF ValuesOf(hits, eid, "score") = {} THEN x = FZero
    ELSE x = FMaxOf(ValuesOf(hits, eid, "score"))

\* C15: ranker completeness: every entity with a hit has one result; its
\* score_lexical is its lexical hit score or 0 without a lexical hit, its
\* score_semantic its vector hit score or 0 without a vector hit, and its
\* score_final is exactly the weighted sum of its four scores.
C15_RankerComplete ==
    call.op = "merge_and_score"
    => /\ { call.out[i].entity_id : i \in 1..Len(call.out) }
            = IdsOf(call.lex_hits) \cup IdsOf(call.vec_hits)
       /\ Len(call.out) = Cardinality(IdsOf(call.lex_hits) \cup IdsOf(call.vec_hits))
       /\ \A i \in 1..Len(call.out) :
            /\ SourceScore(call.out[i].score_lexical, call.lex_hits, call.out[i].entity_id)
            /\ SourceScore(call.out[i].score_semantic, call.vec_hits, call.out[i].entity_id)
            /\ call.out[i].score_final
                 = FAdd(FMul(call.w.semantic, call.out[i].score_semantic),
                        FAdd(FMul(call.w.lexical, call.out[i].score_lexical),
                             FAdd(FMul(call.w.quality, call.out[i].score_quality),
                                  FMul(call.w.recency, call.out[i].score_recency))))

\* lexical 0.8 and vector 0.6 under weights 0.5/0.5/0/0 gave 0.7, next to an
\* entity that only the vector search found
C15_Witness ==
    /\ call.op = "merge_and_score"
    /\ call.w.quality = FZero /\ call.w.semantic = Frac(1, 2)
    /\ \E i, j \in 1..Len(call.out) :
         /\ call.out[i].score_lexical = Frac(4, 5)
         /\ call.out[i].score_semantic = Frac(3, 5)
         /\ call.out[i].score_final = Frac(7, 10)
         /\ call.out[j].score_lexical = FZero
         /\ call.out[j].score_semantic # FZero

\* the signal a source reported for eid under key: that of its first hit for
\* the entity, Absent when it has no hit or the hit has no such key
Reported(hits, eid, key) ==
    IF eid \notin IdsOf(hits) THEN Absent
    ELSE hits[CHOOSE i \in 1..Len(hits) :
                /\ hits[i].entity_id = eid
                /\ \A j \in 1..(i - 1) : hits[j].entity_id # eid][key]

\* the average over the sources that reported a signal, 0 when none did
AvgReported(a, b) ==
    IF a = Absent /\ b = Absent THEN FZero
    ELSE IF a = Absent THEN b
    ELSE IF b = Absent THEN a
    ELSE FHalf(FAdd(a, b))

\* C16: score_quality, and likewise score_recency, of a result is the average
\* of the signals of the sources that reported one for the entity: the value
\* of the single source, the mean of the two, or 0 when there is none.
C16_AverageOfReported ==
    call.op = "merge_and_score"
    => \A i \in 1..Len(call.out) :
         /\ call.out[i].score_quality
              = AvgReported(Reported(call.lex_hits, call.out[i].entity_id, "quality"),
                            Reported(call.vec_hits, call.out[i].entity_id, "quality"))
         /\ call.out[i].score_recency
              = AvgReported(Reported(call.lex_hits, call.out[i].entity_id, "recency"),
                            Reported(call.vec_hits, call.out[i].entity_id, "recency"))

\* ------------------------------------------------------------------------
\* Specification SpecNorm: calls of normalize_minmax
\* ------------------------------------------------------------------------

MaxValues == 3

\* raw scores: similarities, hit ratios, and values outside [0, 1]
RawValues == { Frac(-1, 2), FZero, Frac(1, 3), Frac(2, 3), FOne, Frac(3, 2) }

InitNorm ==
    /\ IngestInit
    /\ LibIdle

\* a caller calls normalize_minmax(values)
CallNormalize ==
    /\ call = NoCall
    /\ \E values \in SeqsUpTo(RawValues, MaxValues) :
         call' = [op |-> "normalize_minmax", values |-> values,
                  out |-> normalize_minmax(values)]
    /\ UNCHANGED << catalog, objects, tagsSeen, ingestVars >>

NextNorm ==
    \/ ReturnToCaller
    \/ CallNormalize

SpecNorm == InitNorm /\ [][NextNorm]_vars

\* C17: normalization is bounded: for a non-empty list normalize_minmax
\* returns a list of the same length with every value in [0, 1], and every
\* value 0 when all raw values are equal (a single value included).
C17_NormalizeBounded ==
    call.op = "normalize_minmax" /\ call.values # <<>>
    => /\ Len(call.out) = Len(call.values)
       /\ \A i \in 1..Len(call.out) : FLeq(FZero, call.out[i]) /\ FLeq(call.out[i], FOne)
       /\ (\A i, j \in 1..Len(call.values) : call.values[i] = call.values[j])
          => \A i \in 1..Len(call.out) : call.out[i] = FZero

\* three different values, one of them negative and one above one, went to
\* 0, 7/12 and 1
C17_Witness ==
    /\ call.op = "normalize_minmax"
    /\ call.values = << Frac(-1, 2), Frac(2, 3), Frac(3, 2) >>
    /\ call.out = << FZero, Frac(7, 12), FOne >>

\* ------------------------------------------------------------------------
\* Gateway client: services/gateway_client.py, MCPGatewayClient._request.
\* Time is counted in half seconds.
\* ------------------------------------------------------------------------

\* the 5.0 seconds that cap a delay
MaxDelay == 10

\* _sleep_backoff, changed: the delay is not capped
_sleep_backoff_uncapped(backoff_base, attempt) == backoff_base * (2 ^ (attempt - 1))

\* gateway_client.py: _sleep_backoff: the time it sleeps
_sleep_backoff(backoff_base, attempt) ==
    Min(backoff_base * (2 ^ (attempt - 1)), MaxDelay)

\* httpx.RequestError in place of a status code: no response came
RequestError == 0

\* what self._client.request may give: a status code, or httpx.RequestError
Responses == { 200, 302, 404, 409, 500, 503, RequestError }

Is5xx(r) == r \in { 500, 503 }

Is4xx(r) == r \in { 404, 409 }

MaxRetries == 4

\* backoff_base: 0, the default 0.5 s, 2 s
Backoffs == { 0, 1, 4 }

\* how one pass of the loop of _request ends for a response: "return",
\* "raise" (GatewayClientError) or "retry"
attempt_outcome(r, ok_on_conflict) ==
    IF r = RequestError THEN "retry"
    ELSE IF r >= 500 THEN "retry"
    ELSE IF r = 409 /\ ok_on_conflict THEN "return"
    ELSE IF 400 <= r /\ r < 500 THEN "raise"
    ELSE "return"

InitRetry ==
    /\ IngestInit
    /\ LibIdle

\* _request is entered: attempts = max(1, self.max_retries)
CallRequest ==
    /\ call = NoCall
    /\ \E max_retries \in 0..MaxRetries, backoff_base \in Backoffs,
          ok_on_conflict \in BOOLEAN :
         call' = [op |-> "_request", max_retries |-> max_retries,
                  attempts |-> Max(1, max_retries), backoff_base |-> backoff_base,
                  ok_on_conflict |-> ok_on_conflict, attempt |-> 1,
                  responses |-> <<>>, delays |-> <<>>, outcome |-> ""]
    /\ UNCHANGED << catalog, objects, tagsSeen, ingestVars >>

\* the token cannot be minted: GatewayClientError before any request is sent
TokenError ==
    /\ call.op = "_request" /\ call.outcome = ""
    /\ call' = [call EXCEPT !.outcome = "GatewayClientError"]
    /\ UNCHANGED << catalog, objects, tagsSeen, ingestVars >>

\* one pass of the loop: the request is sent and answered; after a 5xx or a
\* network error the client sleeps, and raises if that was the last attempt
Attempt ==
    /\ call.op = "_request" /\ call.outcome = ""
    /\ \E r \in Responses :
         \E how \in { attempt_outcome(r, call.ok_on_conflict) } :
           call' = [call EXCEPT
                      !.responses = Append(@, r),
                      !.delays = IF how = "retry"
                                 THEN Append(@, _sleep_backoff(call.backoff_base, call.attempt))
                                 ELSE @,
                      !.attempt = IF how = "retry" THEN @ + 1 ELSE @,
                      !.outcome = CASE how = "return" -> "returned"
                                    [] how = "raise" -> "GatewayClientError"
                                    [] how = "retry" /\ call.attempt = call.attempts
                                         -> "GatewayClientError"
                                    [] OTHER -> ""]
    /\ UNCHANGED << catalog, objects, tagsSeen, ingestVars >>

NextRetry ==
    \/ ReturnToCaller
    \/ CallRequest
    \/ TokenError
    \/ Attempt

SpecRetry == InitRetry /\ [][NextRetry]_vars

\* 2 ^ n by doubling
RECURSIVE Doubled(_, _)
Doubled(x, n) == IF n = 0 THEN x ELSE Doubled(x + x, n - 1)

Retryable(r) == r = RequestError \/ Is5xx(r)

Last(xs) == xs[Len(xs)]

\* C19: retry policy of _request: at most max(1, max_retries) requests are
\* sent; another request follows only a 5xx response or a network error, after
\* a delay of min(backoff_base * 2^(attempt-1), 5 s); a 4xx response ends the
\* call at once with GatewayClientError, except 409 under ok_on_conflict, which
\* is returned; when the attempts are used up GatewayClientError is raised.
C19_RetryPolicy ==
    call.op = "_request"
    => /\ Len(call.responses) <= Max(1, call.max_retries)
       /\ \A i \in 1..(Len(call.responses) - 1) :
            /\ Retryable(call.responses[i])
            /\ i <= Len(call.delays)
            /\ 2 * call.delays[i]
                 = 2 * Min(Doubled(call.backoff_base, i - 1), 10)
       /\ call.responses # <<>> /\ Is4xx(Last(call.responses))
          => IF Last(call.responses) = 409 /\ call.ok_on_conflict
             THEN call.outcome = "returned"
             ELSE call.outcome = "GatewayClientError"
       /\ call.responses # <<>> /\ Retryable(Last(call.responses))
          /\ Len(call.responses) = Max(1, call.max_retries)
          => call.outcome = "GatewayClientError"
       /\ call.outcome = "" => call.responses = <<>> \/ Retryable(Last(call.responses))

\* three requests met 503, a network error and 500 under max_retries 3 and a
\* backoff of 2 s: the delays were 2 s, 4 s and the cap, and the call raised
C19_Witness ==
    /\ call.op = "_request"
    /\ call.max_retries = 3 /\ call.backoff_base = 4
    /\ call.responses = << 503, RequestError, 500 >>
    /\ call.delays = << 4, 8, 10 >>
    /\ call.outcome = "GatewayClientError"

\* ------------------------------------------------------------------------
\* A2A: services/ingest.py, ingest_manifest and the block it shares with
\* _ingest_remote.  Entity maps no manifests or protocols column (models.py),
\* so both are attributes of the Python instance only.
\* ------------------------------------------------------------------------

\* an attribute the instance does not have
Unset == << "<unset>" >>

\* Entity(...) or a row loaded in a new session: no unmapped attribute yet
FreshAttrs == [manifests |-> Unset, protocols |-> Unset]

\* manifest["manifests"]: whether it is a dict, its keys, and its "a2a" value
\* (whether that is a dict, and its "version")
ManifestsBlock(isdict, keys, a2aIsDict, version) ==
    [isdict |-> isdict, keys |-> keys, a2a |-> [isdict |-> a2aIsDict, version |-> version]]

\* no "manifests" key: manifest.get("manifests") or {}
NoBlock == ManifestsBlock(TRUE, {}, FALSE, NoneSeq)

A2AVersions == { NoneSeq, << "1.0" >>, << WS, "1.0" >>, << "2.0" >> }

Blocks ==
    { NoBlock,
      ManifestsBlock(FALSE, { "a2a" }, TRUE, << "1.0" >>),
      ManifestsBlock(TRUE, { "mcp" }, FALSE, NoneSeq),
      ManifestsBlock(TRUE, { "a2a" }, FALSE, NoneSeq) }
    \cup { ManifestsBlock(TRUE, { "a2a" }, TRUE, v) : v \in A2AVersions }

\* the manifest of the agent of tests/test_a2a_support.py, without its block
HelloA2A ==
    [Blank EXCEPT !.type = << "agent" >>, !.id = << "hello-a2a" >>,
                  !.version = << "0.1.0" >>, !.name = "Hello A2A",
                  !.summary = "Minimal A2A agent for tests"]

\* f"a2a@{ver}" with ver = str(a2a.get("version") or "1.0").strip()
A2ATag(a2a) == << "a2a@" >> \o strip(OrS(a2a.version, << "1.0" >>))

\* sorted(set(tags)): by the version text
RECURSIVE SortTags(_)
SortTags(S) ==
    IF S = {} THEN <<>>
    ELSE LET t == CHOOSE x \in S :
                    \A y \in S : x = y \/ (x[2] = "1.0" /\ y[2] = "2.0")
         IN << t >> \o SortTags(S \ { t })

\* list(getattr(entity, "protocols", []) or [])
CurrentProtocols(attrs) == IF attrs.protocols = Unset THEN <<>> ELSE attrs.protocols

\* ingest.py: the A2A block of ingest_manifest and of _ingest_remote, on the
\* attributes of the instance
a2a_persist(attrs, mani) ==
    IF ~ (mani.isdict /\ mani.keys # {}) THEN attrs
    ELSE IF ~ ("a2a" \in mani.keys /\ mani.a2a.isdict)
    THEN [attrs EXCEPT !.manifests = mani]
    ELSE IF A2ATag(mani.a2a) \in SeqRange(CurrentProtocols(attrs))
    THEN [attrs EXCEPT !.manifests = mani]
    ELSE [attrs EXCEPT !.manifests = mani,
                       !.protocols = SortTags(SeqRange(CurrentProtocols(attrs))
                                              \cup { A2ATag(mani.a2a) })]

\* db.get(Entity, uid) or Entity(...): the instance of the identity map, or a
\* new one
InstanceOf(objs, uid) == IF uid \in DOMAIN objs THEN objs[uid] ELSE FreshAttrs

\* a function with one argument mapped anew
Put(f, k, v) == [x \in DOMAIN f \cup { k } |-> IF x = k THEN v ELSE f[x]]

TagsOf(seen, uid) == IF uid \in DOMAIN seen THEN seen[uid] ELSE {}

InitA2A ==
    /\ IngestInit
    /\ LibIdle

\* ingest_manifest(manifest, db, do_embed=False) within a session_scope
IngestManifest ==
    /\ call = NoCall
    /\ \E mani \in Blocks :
         \E r \in { _upsert_entity_from_manifest(HelloA2A, store, None) } :
           \E attrs \in { a2a_persist(InstanceOf(objects, r.uid), mani) } :
             /\ r.raised = ""
             /\ store' = r.st
             /\ objects' = Put(objects, r.uid, attrs)
             /\ tagsSeen' = Put(tagsSeen, r.uid,
                                TagsOf(tagsSeen, r.uid) \cup SeqRange(CurrentProtocols(attrs)))
             /\ call' = [op |-> "ingest_manifest", uid |-> r.uid, mani |-> mani,
                         entity |-> attrs, before |-> TagsOf(tagsSeen, r.uid)]
    /\ UNCHANGED << catalog, blobs, vectors, validator, pc, entry, remotes, ri, remote,
                    urls, wstate, wresult, fetched, res, stats, outcome, hist >>

\* db.py: session_scope ends: commit and close; the next job runs in a new
\* session, whose identity map is empty
SessionScopeEnd ==
    /\ call = NoCall
    /\ store.txn
    /\ \E c \in { Commit(store, TRUE) } : store' = NewSession(c.st)
    /\ objects' = << >>
    /\ UNCHANGED << catalog, call, tagsSeen, blobs, vectors, validator, pc, entry,
                    remotes, ri, remote, urls, wstate, wresult, fetched, res, stats,
                    outcome, hist >>

\* the caller of ingest_manifest has its entity
ReturnEntity ==
    /\ call # NoCall
    /\ call' = NoCall
    /\ UNCHANGED << catalog, objects, tagsSeen, ingestVars >>

NextA2A ==
    \/ IngestManifest
    \/ SessionScopeEnd
    \/ ReturnEntity

SpecA2A == InitA2A /\ [][NextA2A]_vars

\* C20: an ingest of a manifest with a manifests.a2a block stores the block in
\* the entity's manifests and has "a2a@<version>" in its protocols; over the
\* (re-)ingests of an entity its tags are a set union: every tag it had is
\* still there, and none is there twice.
C20_ProtocolsUnion ==
    call.op = "ingest_manifest"
    => /\ call.mani.isdict /\ "a2a" \in call.mani.keys /\ call.mani.a2a.isdict
          => /\ call.entity.manifests = call.mani
             /\ A2ATag(call.mani.a2a) \in SeqRange(CurrentProtocols(call.entity))
       /\ call.before \subseteq SeqRange(CurrentProtocols(call.entity))
       /\ Cardinality(SeqRange(CurrentProtocols(call.entity)))
            = Len(CurrentProtocols(call.entity))

\* ------------------------------------------------------------------------
\* Scheduled ingest: src/workers/scheduler.py
\* ------------------------------------------------------------------------

\* the remote URLs a deployment may hold: two URLs, one of them also written
\* with a leading blank, and two entries that are blank after str.strip()
RemoteStrs == { << "r1" >>, << "r2" >>, << WS, "r1" >>, << >>, << WS >> }

MaxRemotes == 3

\* [str(u).strip() for u in xs if str(u).strip()]
RECURSIVE StrippedNonBlank(_)
StrippedNonBlank(xs) ==
    IF xs = << >> THEN << >>
    ELSE IF strip(Head(xs)) # << >>
         THEN << strip(Head(xs)) >> \o StrippedNonBlank(Tail(xs))
         ELSE StrippedNonBlank(Tail(xs))

\* the de-duplication loop of _current_remotes: first occurrences, in order
RECURSIVE DeDup(_, _)
DeDup(us, seen) ==
    IF us = << >> THEN << >>
    ELSE IF Head(us) \in seen THEN DeDup(Tail(us), seen)
         ELSE << Head(us) >> \o DeDup(Tail(us), seen \cup { Head(us) })

\* _parse_remotes for a list / tuple value of settings.MATRIX_REMOTES
_parse_remotes(raw) == StrippedNonBlank(raw)

\* _current_remotes: app.state.remotes when it is a set / list / tuple,
\* settings.MATRIX_REMOTES otherwise
_current_remotes(has_state, state_remotes, matrix_remotes) ==
    DeDup(IF has_state THEN StrippedNonBlank(state_remotes)
          ELSE _parse_remotes(matrix_remotes), {})

\* _run_ingest_cycle: urls are computed, the "no remotes" message is logged
\* when there are none, and the return statement that follows the if (at the
\* indentation of the function body) ends the call: the session, the loop
\* over the urls and _ingest_one are never reached.  invoked is the sequence
\* of urls handed to _ingest_one.
_run_ingest_cycle(has_state, state_remotes, matrix_remotes) ==
    LET us == _current_remotes(has_state, state_remotes, matrix_remotes)
    IN [urls |-> us, skipped_logged |-> (us = << >>), invoked |-> << >>,
        session_opened |-> FALSE]

InitSched ==
    /\ IngestInit
    /\ LibIdle

\* the scheduler's job runs one cycle
CallRunIngestCycle ==
    /\ call = NoCall
    /\ \E has_state \in BOOLEAN, rs \in SeqsUpTo(RemoteStrs, MaxRemotes) :
         \E out \in { _run_ingest_cycle(has_state, rs, rs) } :
           call' = [op |-> "_run_ingest_cycle", has_state |-> has_state,
                    remotes |-> rs, out |-> out]
    /\ UNCHANGED << catalog, objects, tagsSeen, ingestVars >>

NextSched ==
    \/ CallRunIngestCycle
    \/ ReturnToCaller

SpecSched == InitSched /\ [][NextSched]_vars

\* C21: a cycle run with at least one remote configured has invoked the
\* ingest function once for every remote URL, in the configured order.
C21_CycleIngestsAll ==
    call.op = "_run_ingest_cycle" /\ call.out.urls # << >>
    => call.out.invoked = call.out.urls

\* ------------------------------------------------------------------------
\* Recency model: compute_recency_score over a range of timestamps
\* ------------------------------------------------------------------------

\* timestamps and clocks run over 0..MaxTs, in units of one half-life
MaxTs == 10

InitRecency ==
    /\ IngestInit
    /\ LibIdle

\* a backend calls compute_recency_score(ts, now=now); ts may be None, and
\* may lie after now
CallComputeRecency ==
    /\ call = NoCall
    /\ \E ts \in { NoTs } \cup 0..MaxTs, now \in 0..MaxTs :
         call' = [op |-> "compute_recency_score", ts |-> ts, now |-> now,
                  out |-> compute_recency_score(ts, now)]
    /\ UNCHANGED << catalog, objects, tagsSeen, ingestVars >>

NextRecency ==
    \/ CallComputeRecency
    \/ ReturnToCaller

SpecRecency == InitRecency /\ [][NextRecency]_vars

\* C22: compute_recency_score returns 0 for a missing timestamp, 1 for a
\* timestamp equal to now and 1/2 for a timestamp exactly one half-life
\* (HALF_LIFE_DAYS) before now.
C22_RecencyHalfLife ==
    call.op = "compute_recency_score"
    => /\ call.ts = NoTs => call.out = FZero
       /\ call.ts = call.now => call.out = FOne
       /\ call.ts # NoTs /\ call.ts = call.now - HALF_LIFE_DAYS
          => call.out = Frac(1, 2)

\* a call with a timestamp one half-life old has returned
C22_Witness ==
    /\ call.op = "compute_recency_score"
    /\ call.ts # NoTs
    /\ call.ts = call.now - HALF_LIFE_DAYS
    /\ call.out = Frac(1, 2)

\* ------------------------------------------------------------------------
\* The apply phase as a function of the order of the fetched list
\* ------------------------------------------------------------------------

\* no commit, blob write or registration fails
NoFault == [commitOk |-> TRUE, blobPuts |-> MaxBlobPuts, regOk |-> TRUE]

RECURSIVE apply_loop(_, _, _, _)

\* the loop after one iteration that ended with r
apply_rest(fs, r) == apply_loop(Tail(fs), r.st, r.blobs, r.vectors)

\* `for m_url, manifest in fetched` of _ingest_remote under NoFault: the
\* session after the last iteration
apply_loop(fs, st, bl, vecs) ==
    IF fs = << >> THEN st
    ELSE apply_rest(fs, process_manifest(Head(fs).manifest, Head(fs).url, st,
                                         bl, vecs, TRUE, NoFault))

\* the orders in which as_completed may have yielded the futures of fs
OrdersOf(fs) ==
    { p \in [1..Len(fs) -> SeqRange(fs)] : SeqRange(p) = SeqRange(fs) }

\* C23: when _prefetch_manifests has returned, the entity rows the apply loop
\* leaves (the set of entities and every field value) are the same for each
\* order in which the fetched manifests could have been yielded.
C23_OrderIndependent ==
    pc = "apply" /\ hist.applied = {}
    => \A p \in OrdersOf(fetched) :
         apply_loop(p, store, blobs, vectors).rows
           = apply_loop(fetched, store, blobs, vectors).rows

\* C24: in one iteration of the apply loop, save_entity and
\* _upsert_entity_from_manifest address the same row: whenever both compute a
\* uid for the manifest the two uids are equal, and the iteration leaves at
\* most one entity row that is new or changed.
C24_SameRowBothSteps ==
    [][ ApplyStep
        => /\ (/\ upsert_entity(Head(fetched).manifest, store.rows).raised = ""
               /\ _entity_uid(Head(fetched).manifest) # NoneSeq)
              => upsert_entity(Head(fetched).manifest, store.rows).uid
                   = _entity_uid(Head(fetched).manifest)
           /\ Cardinality(store'.rows \ store.rows) <= 1 ]_vars

\* C25: an iteration of the apply loop that raised does not count the
\* manifest and leaves no new or changed entity row, in the session or
\* committed; an iteration that did not raise counts it once and the entity
\* of the manifest is in the session.
C25_CountedIffPersisted ==
    [][ ApplyStep
        => /\ hist'.step.raised # ""
              => /\ res'.entities_upserted = res.entities_upserted
                 /\ store'.rows \ store.rows = {}
                 /\ store'.db \ store.db = {}
           /\ hist'.step.raised = ""
              => /\ res'.entities_upserted = res.entities_upserted + 1
                 /\ HasRow(store'.rows, _entity_uid(Head(fetched).manifest)) ]_vars

\* ------------------------------------------------------------------------
\* The chunker's loops, one iteration per step:
\* src/services/search/chunking.py, _merge_blocks and _slice_hard
\* ------------------------------------------------------------------------

MaxBlocks == 3

\* max_tokens ranges over 1..MaxTokens, overlap_tokens over 0..MaxOverlap
\* (overlap_tokens >= max_tokens included)
MaxTokens == 3

MaxOverlap == 3

\* blocks of 1, 8 and 20 characters: 1, 2 and 5 tokens
BlockPool ==
    { [t |-> "p1", a |-> 0, b |-> 1], [t |-> "p8", a |-> 0, b |-> 8],
      [t |-> "p20", a |-> 0, b |-> 20] }

\* _slice_hard on a text of n characters without sentence end or blank, from
\* cursor i: the lengths of the slices
RECURSIVE RawSlices(_, _, _, _)
RawSlices(n, i, max_chars, overlap_chars) ==
    IF Min(n, i + max_chars) >= n THEN << n - i >>
    ELSE << max_chars >>
         \o RawSlices(n, Max(i + 1, i + max_chars - Max(0, overlap_chars)),
                      max_chars, overlap_chars)

\* a window of the blocks from..to with its summed token estimate
Window(from, to, tokens, sliced) ==
    [from |-> from, to |-> to, tokens |-> tokens, sliced |-> sliced]

\* lines 291-303: the windows of the hard-slice branch for block idx
hard_windows(blocks, idx, max_tokens, overlap_tokens) ==
    LET parts == RawSlices(PieceLen(blocks[idx]), 0, Max(1, max_tokens * 4),
                           Max(0, overlap_tokens * 4))
    IN [k \in 1..Len(parts) |->
          Window(idx, idx, estimate_tokens([t |-> "", a |-> 0, b |-> parts[k]]), TRUE)]

\* the windows one iteration of the outer loop appends
step_windows(blocks, idx, max_tokens, overlap_tokens, s) ==
    IF s.cur_empty
    THEN hard_windows(blocks, idx, max_tokens, overlap_tokens)
    ELSE << Window(idx, s.j - 1, s.cur_tokens, FALSE) >>

\* the characters of the texts _slice_hard is called with
TextAtoms == { "x", ".", WS }

MaxTextLen == 4

MaxChars == 2

MaxOverlapChars == 2

\* a match of _SENT_END_RE in w ends after position e: a "." followed by the
\* blanks up to e, which the greedy \s+ takes to the end of the run
SentEndAt(w, e) ==
    /\ e <= Len(w)
    /\ \E p \in 1..(e - 1) : w[p] = "." /\ \A q \in (p + 1)..e : w[q] = WS
    /\ e = Len(w) \/ w[e + 1] # WS

\* m[-1].end() of list(_SENT_END_RE.finditer(window)); 0 when m is empty
LastSentEnd(w) ==
    IF \E e \in 2..Len(w) : SentEndAt(w, e)
    THEN CHOOSE e \in 2..Len(w) :
           SentEndAt(w, e) /\ \A f \in (e + 1)..Len(w) : ~ SentEndAt(w, f)
    ELSE 0

\* the fallback of an iteration whose window is blank: the raw slice, stripped
slice_fallback(text, i, max_chars, window, end) ==
    IF strip(window) = << >>
    THEN [window |-> strip(SubSeq(text, i + 1, Min(Len(text), i + max_chars))),
          end |-> i + Len(strip(SubSeq(text, i + 1, Min(Len(text), i + max_chars))))]
    ELSE [window |-> window, end |-> end]

\* the trim of the window to its last sentence end
slice_trim(text, i, max_chars, window, cut) ==
    IF cut > 0
    THEN slice_fallback(text, i, max_chars, rstrip(SubSeq(window, 1, cut)), i + cut)
    ELSE slice_fallback(text, i, max_chars, window, Min(Len(text), i + max_chars))

\* one iteration of the while loop of _slice_hard at cursor i (0-based): the
\* window it appends and its end
slice_step(text, i, max_chars) ==
    slice_trim(text, i, max_chars,
               SubSeq(text, i + 1, Min(Len(text), i + max_chars)),
               LastSentEnd(SubSeq(text, i + 1, Min(Len(text), i + max_chars))))

InitChunk ==
    /\ IngestInit
    /\ LibIdle

\* chunk_document calls _merge_blocks(blocks, max_tokens, overlap_tokens)
CallMergeBlocks ==
    /\ call = NoCall
    /\ \E blocks \in SeqsUpTo(BlockPool, MaxBlocks), max_tokens \in 1..MaxTokens,
          overlap_tokens \in 0..MaxOverlap :
         call' = [op |-> "_merge_blocks", blocks |-> blocks,
                  max_tokens |-> max_tokens, overlap_tokens |-> overlap_tokens,
                  idx |-> 1, iters |-> 0, windows |-> << >>,
                  done |-> (blocks = << >>)]
    /\ UNCHANGED << catalog, objects, tagsSeen, ingestVars >>

\* one iteration of `while idx < len(blocks)`
MergeIteration ==
    /\ call.op = "_merge_blocks"
    /\ ~ call.done
    /\ \E s \in { merge_step(call.blocks, call.idx, call.max_tokens,
                             call.overlap_tokens) } :
         call' = [call EXCEPT
                    !.windows = @ \o step_windows(call.blocks, call.idx,
                                                  call.max_tokens,
                                                  call.overlap_tokens, s),
                    !.iters = @ + 1,
                    !.idx = IF s.last THEN @ ELSE s.next,
                    !.done = s.last \/ s.next > Len(call.blocks)]
    /\ UNCHANGED << catalog, objects, tagsSeen, ingestVars >>

\* a caller calls _slice_hard(text, max_chars=..., overlap_chars=...)
CallSliceHard ==
    /\ call = NoCall
    /\ \E text \in SeqsUpTo(TextAtoms, MaxTextLen), max_chars \in 1..MaxChars,
          overlap_chars \in 0..MaxOverlapChars :
         call' = [op |-> "_slice_hard", text |-> text, max_chars |-> max_chars,
                  overlap_chars |-> overlap_chars, i |-> 0, iters |-> 0,
                  chunks |-> IF Len(text) <= max_chars THEN << text >> ELSE << >>,
                  done |-> Len(text) <= max_chars]
    /\ UNCHANGED << catalog, objects, tagsSeen, ingestVars >>

\* one iteration of `while i < len(text)`
SliceIteration ==
    /\ call.op = "_slice_hard"
    /\ ~ call.done
    /\ \E s \in { slice_step(call.text, call.i, call.max_chars) } :
         call' = [call EXCEPT
                    !.chunks = Append(@, s.window),
                    !.iters = @ + 1,
                    !.i = IF s.end >= Len(call.text) THEN @
                          ELSE Max(call.i + 1, s.end - Max(0, call.overlap_chars)),
                    !.done = \/ s.end >= Len(call.text)
                             \/ Max(call.i + 1, s.end - Max(0, call.overlap_chars))
                                  >= Len(call.text)]
    /\ UNCHANGED << catalog, objects, tagsSeen, ingestVars >>

\* the loop has ended and the function returns its list
ChunkerReturn ==
    /\ call # NoCall
    /\ call.done
    /\ call' = NoCall
    /\ UNCHANGED << catalog, objects, tagsSeen, ingestVars >>

NextChunk ==
    \/ CallMergeBlocks
    \/ MergeIteration
    \/ CallSliceHard
    \/ SliceIteration
    \/ ChunkerReturn

SpecChunk == InitChunk /\ [][NextChunk]_vars

\* a thread that is in one of the loops runs its next iteration
SpecChunkLive ==
    SpecChunk /\ WF_vars(MergeIteration) /\ WF_vars(SliceIteration)

\* C26: every window _merge_blocks returns is within the budget: its summed
\* token estimate is at most max_tokens, so no window is a whole block whose
\* own estimate exceeds max_tokens.
C26_BudgetEnforced ==
    call.op = "_merge_blocks" /\ call.done
    => \A n \in 1..Len(call.windows) : call.windows[n].tokens <= call.max_tokens

\* C27: when _merge_blocks returns more than one window with
\* overlap_tokens > 0, every window after the first starts at a block that
\* belongs to the window before it.
C27_AdjacentOverlap ==
    (/\ call.op = "_merge_blocks" /\ call.done
     /\ call.overlap_tokens > 0 /\ Len(call.windows) > 1)
    => \A n \in 1..(Len(call.windows) - 1) :
         call.windows[n + 1].from <= call.windows[n].to

\* a call is inside one of the two loops
InLoop == call.op \in { "_merge_blocks", "_slice_hard" } /\ ~ call.done

\* C28: in every iteration of _merge_blocks that does not end the loop the
\* window start idx strictly increases, and so does the cursor i in
\* _slice_hard; the iterations of a call never outnumber the blocks (the
\* characters), and every call that is in a loop leaves it.
C28_ChunkerTerminates ==
    /\ [][ /\ (call.op = "_merge_blocks" /\ ~ call.done /\ call' # NoCall)
              => /\ call'.iters = call.iters + 1
                 /\ call'.done \/ call'.idx > call.idx
                 /\ call'.iters <= Len(call.blocks)
           /\ (call.op = "_slice_hard" /\ ~ call.done /\ call' # NoCall)
              => /\ call'.iters = call.iters + 1
                 /\ call'.done \/ call'.i > call.i
                 /\ call'.iters <= Len(call.text) ]_vars
    /\ (InLoop ~> ~ InLoop)

\* a call of _merge_blocks with overlap_tokens >= max_tokens has ended after
\* several iterations; the first packed two blocks and the second backed up
\* into them
C28_Witness ==
    /\ call.op = "_merge_blocks" /\ call.done /\ call.iters >= 2
    /\ call.overlap_tokens >= call.max_tokens
    /\ call.windows[1].to > call.windows[1].from
    /\ call.windows[2].from <= call.windows[1].to

\* ------------------------------------------------------------------------
\* merge_and_score: de-duplication
\* ------------------------------------------------------------------------

\* the scores of the hits of eid in one hit list
OccurrenceScores(hits, eid) ==
    { hits[i].score : i \in { k \in 1..Len(hits) : hits[k].entity_id = eid } }

\* x is the greatest of the scores S, or 0 when there is none
GreatestOf(x, S) ==
    IF S = {} THEN x = FZero
    ELSE x \in S /\ \A y \in S : FLeq(y, x)

\* C29: merge_and_score returns one result per distinct entity id of the two
\* hit lists and no result for any other id; the lexical (semantic) score of
\* a result is the greatest score among the entity's hits in the lexical
\* (vector) list.
C29_OnePerIdMaxScore ==
    call.op = "merge_and_score"
    => /\ \A i, j \in 1..Len(call.out) :
            call.out[i].entity_id = call.out[j].entity_id => i = j
       /\ \A i \in 1..Len(call.out) :
            \/ \E k \in 1..Len(call.lex_hits) :
                 call.lex_hits[k].entity_id = call.out[i].entity_id
            \/ \E k \in 1..Len(call.vec_hits) :
                 call.vec_hits[k].entity_id = call.out[i].entity_id
       /\ \A k \in 1..Len(call.lex_hits) :
            \E i \in 1..Len(call.out) :
              call.out[i].entity_id = call.lex_hits[k].entity_id
       /\ \A k \in 1..Len(call.vec_hits) :
            \E i \in 1..Len(call.out) :
              call.out[i].entity_id = call.vec_hits[k].entity_id
       /\ \A i \in 1..Len(call.out) :
            /\ GreatestOf(call.out[i].score_lexical,
                          OccurrenceScores(call.lex_hits, call.out[i].entity_id))
            /\ GreatestOf(call.out[i].score_semantic,
                          OccurrenceScores(call.vec_hits, call.out[i].entity_id))

\* the lexical list held the same entity twice, the lower score first, and
\* the one result for it carries the higher score
C29_Witness ==
    /\ call.op = "merge_and_score"
    /\ Len(call.lex_hits) = 2
    /\ call.lex_hits[1].entity_id = call.lex_hits[2].entity_id
    /\ call.lex_hits[1].score = Frac(2, 5)
    /\ call.lex_hits[2].score = Frac(4, 5)
    /\ Len(call.vec_hits) = 1
    /\ call.vec_hits[1].entity_id # call.lex_hits[1].entity_id
    /\ Len(call.out) = 2
    /\ \E i \in 1..2 : /\ call.out[i].entity_id = call.lex_hits[1].entity_id
                       /\ call.out[i].score_lexical = Frac(4, 5)

\* ------------------------------------------------------------------------
\* _chunk_and_embed on READMEs with repeated paragraphs
\* ------------------------------------------------------------------------

\* a README has up to MaxReadme paragraphs
MaxReadme == 3

ReadmeParas == { "README-LONG-1", "README-LONG-2" }

\* the manifests whose entity is embedded
EmbedManifests ==
    { [m EXCEPT !.readme = r] :
        m \in { HelloTool, HelloFull }, r \in SeqsUpTo(ReadmeParas, MaxReadme) }

InitEmbed ==
    /\ IngestInit
    /\ LibIdle

\* _ingest_remote, lines 228-235, on an empty catalog:
\* entity = _upsert_entity_from_manifest(manifest, ...), then
\* _chunk_and_embed(entity, manifest, db); blobPuts is the number of blob
\* writes that succeed (all of them when it reaches the number of chunks)
CallChunkAndEmbed ==
    /\ call = NoCall
    /\ \E m \in EmbedManifests, blobPuts \in 0..(MaxReadme + 1) :
         \E s2 \in { _upsert_entity_from_manifest(m, store, "u1") } :
           \E ce \in { _chunk_and_embed(RowOf(s2.st.rows, s2.uid), m, blobs, vectors,
                                        blobPuts) } :
             call' = [op |-> "_chunk_and_embed", manifest |-> m,
                      entity_uid |-> s2.uid, blobPuts |-> blobPuts,
                      raised |-> ce.raised, count |-> ce.count,
                      upserts |-> [i \in 1..Len(ce.batch) |->
                                     [entity_uid |-> s2.uid,
                                      chunk_id |-> ChunkId(ce.batch[i])]]]
    /\ UNCHANGED << catalog, objects, tagsSeen, ingestVars >>

NextEmbed ==
    \/ CallChunkAndEmbed
    \/ ReturnToCaller

SpecEmbed == InitEmbed /\ [][NextEmbed]_vars

\* C30: the (entity_uid, chunk_id) pairs of the batch _chunk_and_embed hands
\* to vector.upsert_vectors are pairwise distinct.
C30_VectorKeysDistinct ==
    call.op = "_chunk_and_embed" /\ call.raised = ""
    => \A i, j \in 1..Len(call.upserts) :
         (/\ call.upserts[i].entity_uid = call.upserts[j].entity_uid
          /\ call.upserts[i].chunk_id = call.upserts[j].chunk_id)
         => i = j

====
